---- MODULE Spec2Model ----
(***************************************************************************)
(* A model of the parserc parser-combinator core: the input cursor, the    *)
(* control-flow error model, the primitive recognizers, the combinators    *)
(* ok / or / fatal / map_err, the generic Syntax nodes and the parsers the *)
(* derive macro generates for structs and enums.                           *)
(*                                                                         *)
(* A parser is a record with a `tag` naming the combinator or node and the *)
(* sub-parsers it is built from; Parse(p, input) runs it on a cursor and   *)
(* returns the value or error together with the cursor as the parser left  *)
(* it.  The field `log` of a result is a history of the primitive          *)
(* recognizers that ran (and of the enum variants that were attempted), so *)
(* that "the alternative was never run" is observable.                     *)
(***************************************************************************)
EXTENDS Integers, Sequences, FiniteSets, TLC

(***************************************************************************)
(* Bounds of the model.                                                    *)
(***************************************************************************)
MaxLen == 3

MaxOffset == 1

Min(a, b) == IF a < b THEN a ELSE b

\* all strings (sequences of code units) over alphabet A of length <= n
Strs(A, n) == UNION {[1..k -> A] : k \in 0..n}

(***************************************************************************)
(* Span (sourcespan::Span<usize>): None or Range(start..end).              *)
(***************************************************************************)
SpanNone == [tag |-> "None", start |-> 0, end |-> 0]

Range(s, e) == [tag |-> "Range", start |-> s, end |-> e]

\* None is the identity, two ranges give the bounding range
union(a, b) ==
    IF a.tag = "None" THEN b
    ELSE IF b.tag = "None" THEN a
    ELSE Range(Min(a.start, b.start), IF a.end > b.end THEN a.end ELSE b.end)

span_len(s) == IF s.tag = "None" THEN 0 ELSE s.end - s.start

(***************************************************************************)
(* ControlFlow and Kind (errors.rs).                                       *)
(***************************************************************************)
ControlFlow == {"Fatal", "Recovable", "Incomplete"}

KindNames == {"Next", "NextIf", "Keyword", "Syntax", "Token", "LimitsTo",
              "Limits", "LimitsFrom", "TakeUntil", "TakeWhileRange",
              "TakeWhileFrom", "LeftRecursion", "Delimiter"}

\* an error value: the enum variant, its name (Syntax / Token, and the
\* domain kinds of downstream error enums), the control flow and the span
Kind(kind, name, cf, span) == [kind |-> kind, name |-> name, cf |-> cf, span |-> span]

control_flow(err) == err.cf

\* Kind::into_fatal as written: two arms build a different variant
into_fatal(err) ==
    CASE err.kind = "TakeWhileFrom" -> Kind("TakeWhileRange", err.name, "Fatal", err.span)
      [] err.kind = "Delimiter" -> Kind("LimitsFrom", err.name, "Fatal", err.span)
      [] OTHER -> Kind(err.kind, err.name, "Fatal", err.span)

is_fatal(err) == control_flow(err) = "Fatal"

(***************************************************************************)
(* Input cursor (input.rs): a window (offset, value) over the source.      *)
(***************************************************************************)
\* chars::TokenStream: the items are code points.  `value` is the sequence of
\* the code units of a valid UTF-8 string: a symbol of the model is one ASCII
\* code unit, and "C3" "A9" are the two code units of U+00E9
TokenStream(offset, value) == [offset |-> offset, value |-> value, flavour |-> "chars"]

\* bytes::TokenStream: the same string, the items are its code units
BytesTokenStream(offset, value) == [offset |-> offset, value |-> value, flavour |-> "bytes"]

len(input) == Len(input.value)

start(input) == input.offset

end(input) == input.offset + Len(input.value)

\* split_to(at): the returned window is [0, at), self becomes [at, len)
split_to_head(input, at) == [input EXCEPT !.value = SubSeq(input.value, 1, at)]

split_to_rest(input, at) ==
    [input EXCEPT !.offset = input.offset + at,
                  !.value = SubSeq(input.value, at + 1, Len(input.value))]

input_to_span(input) == Range(start(input), end(input))

to_span_at(input, at) == Range(start(input), Min(start(input) + at, end(input)))

\* the UTF-8 encoding of an item: a u8 and an ASCII char are one code unit
utf8(item) == IF item = "U+E9" THEN <<"C3", "A9">> ELSE <<item>>

\* Item::len: 1 for u8, len_utf8 for char
item_len(item) == Len(utf8(item))

\* the item the iterator (bytes() or chars()) yields at code unit `offset`
iter_at(input, offset) ==
    IF input.flavour = "chars" /\ input.value[offset + 1] = "C3"
    THEN "U+E9"
    ELSE input.value[offset + 1]

\* str::is_char_boundary
is_char_boundary(value, at) ==
    \/ at = 0
    \/ at = Len(value)
    \/ at < Len(value) /\ value[at + 1] # "A9"

\* StartWith::starts_with: as_bytes().starts_with(needle), for a needle that
\* is a &str (its bytes) or a &[u8]
starts_with(input, needle) ==
    /\ Len(needle) <= Len(input.value)
    /\ SubSeq(input.value, 1, Len(needle)) = needle

(***************************************************************************)
(* Results.                                                                *)
(***************************************************************************)
NoVal == [tag |-> "NoVal"]

NoErr == Kind("NoErr", "", "Recovable", SpanNone)

Ok(v, input, log) == [ok |-> TRUE, val |-> v, err |-> NoErr, input |-> input, log |-> log]

Err(e, input, log) == [ok |-> FALSE, val |-> NoVal, err |-> e, input |-> input, log |-> log]

Ev(name, input, n) == [ev |-> name, at |-> input.offset, n |-> n]

\* a panic: it unwinds through every caller, no combinator handles it
Panic(input, log) ==
    [ok |-> FALSE, val |-> NoVal, err |-> Kind("Panic", "str::split_at", "Fatal", SpanNone),
     input |-> input, log |-> log]

Panicked(r) == ~r.ok /\ r.err.kind = "Panic"

\* values
Window(input) == [tag |-> "Input", inp |-> input]

ValSome(v) == [tag |-> "Some", v |-> v]

ValNone == [tag |-> "None"]

\* split_to(at) as a parser's last step: str::split_at panics when `at` is
\* past the end or inside a code point, in both flavours
split_to(input, at, log) ==
    IF at <= Len(input.value) /\ is_char_boundary(input.value, at)
    THEN Ok(Window(split_to_head(input, at)), split_to_rest(input, at), log)
    ELSE Panic(input, log)

\* split_off(at): self keeps [0, at), the returned window is [at, len)
split_off(input, at, log) ==
    IF at <= Len(input.value) /\ is_char_boundary(input.value, at)
    THEN Ok(Window(split_to_rest(input, at)), split_to_head(input, at), log)
    ELSE Panic(input, log)

(***************************************************************************)
(* Item predicates handed to take_while and friends.                       *)
(***************************************************************************)
\* An item is a one-character string for an ASCII char, "U+E9" for the
\* two-unit char U+00E9, and "C3" / "A9" for its two code units as u8 items.
AsciiLower == {"a", "b", "c", "d", "e", "f", "g", "h", "i", "j", "k", "l", "m",
               "n", "o", "p", "q", "r", "s", "t", "u", "v", "w", "x", "y", "z"}

AsciiUpper == {"A", "B", "C", "D", "E", "F", "G", "H", "I", "J", "K", "L", "M",
               "N", "O", "P", "Q", "R", "S", "T", "U", "V", "W", "X", "Y", "Z"}

AsciiDigit == {"0", "1", "2", "3", "4", "5", "6", "7", "8", "9"}

AsciiHexLetter == {"a", "b", "c", "d", "e", "f", "A", "B", "C", "D", "E", "F"}

\* the ASCII chars with the White_Space property (char::is_whitespace):
\* space, U+0009 tab, U+000A line feed, U+000B vertical tab (written as the
\* character itself, the last string of the set), U+000C form feed and
\* U+000D carriage return.  The non-ASCII White_Space chars are outside the
\* items of the model, whose one non-ASCII char is "U+E9".
VerticalTab == ""

AsciiWhitespace == {" ", "\t", "\n", "\r", "\f", VerticalTab}

\* the closures of the repository, by the name the model gives them:
\*   is_alpha, is_alphabetic        c.is_ascii_alphabetic(), c.is_alphabetic()
\*   is_digit, is_ascii_digit       c.is_ascii_digit()
\*   is_whitespace                  c.is_whitespace()
\*   is_alphanumeric_or_underscore  c.is_alphanumeric() || c == '_'
\*   is_ident_start                 c == '_' || is_xid_start(c)
\*   is_xid_continue                is_xid_continue(c)
\*   is_ascii_digit_or_underscore   c.is_ascii_digit() || c == '_'
\*   is_ascii_hexdigit              c.is_ascii_hexdigit()
\*   is_lead_byte, is_non_ascii     b >= 0xC0, !b.is_ascii()   (u8 items)
\*   any                            true
Pred(name, c) ==
    CASE name = "is_alpha" -> c \in AsciiLower \cup AsciiUpper
      [] name = "is_whitespace" -> c \in AsciiWhitespace
      [] name \in {"is_digit", "is_ascii_digit"} -> c \in AsciiDigit
      [] name = "is_alphanumeric_or_underscore" ->
            c \in AsciiLower \cup AsciiUpper \cup AsciiDigit \cup {"_", "U+E9"}
      [] name = "is_alphabetic" -> c \in AsciiLower \cup AsciiUpper \cup {"U+E9"}
      [] name = "is_lead_byte" -> c = "C3"
      [] name = "is_non_ascii" -> c \in {"C3", "A9", "U+E9"}
      [] name = "is_ident_start" -> c \in AsciiLower \cup AsciiUpper \cup {"_", "U+E9"}
      [] name = "is_xid_continue" ->
            c \in AsciiLower \cup AsciiUpper \cup AsciiDigit \cup {"_", "U+E9"}
      [] name = "is_ascii_digit_or_underscore" -> c \in AsciiDigit \cup {"_"}
      [] name = "is_ascii_hexdigit" -> c \in AsciiDigit \cup AsciiHexLetter
      [] name = "any" -> TRUE

(***************************************************************************)
(* Primitive recognizers (c.rs).                                           *)
(***************************************************************************)
next(item, input) ==
    LET log == <<Ev("next", input, 0)>> IN
    IF len(input) > 0
    THEN IF iter_at(input, 0) = item
         THEN split_to(input, item_len(item), log)
         ELSE Err(Kind("Next", "", "Recovable", Range(start(input), start(input) + 1)),
                  input, log)
    ELSE Err(Kind("Next", "", "Incomplete", input_to_span(input)), input, log)

next_if(f, input) ==
    LET log == <<Ev("next_if", input, 0)>> IN
    IF len(input) > 0
    THEN IF Pred(f, iter_at(input, 0))
         THEN split_to(input, item_len(iter_at(input, 0)), log)
         ELSE Err(Kind("NextIf", "", "Recovable", input_to_span(input)), input, log)
    ELSE Err(Kind("NextIf", "", "Incomplete", input_to_span(input)), input, log)

keyword(kw, input) ==
    LET log == <<Ev("keyword", input, Len(kw))>> IN
    IF starts_with(input, kw)
    THEN split_to(input, Len(kw), log)
    ELSE Err(Kind("Keyword", "", "Recovable",
                  Range(start(input), Min(start(input) + Len(kw), end(input)))),
             input, log)

\* Find::find, memmem::find over as_bytes(): the index of the first occurrence
\* of the needle (a &str, a &[u8] or a &[u8; N]) in the code units, -1 for None
find(input, needle) ==
    LET at == {o \in 0..(Len(input.value) - Len(needle)) :
                  SubSeq(input.value, o + 1, o + Len(needle)) = needle}
    IN  IF at = {} THEN -1 ELSE CHOOSE o \in at : \A o2 \in at : o <= o2

take_until(needle, input) ==
    LET log == <<Ev("take_until", input, Len(needle))>>
        offset == find(input, needle)
    IN  IF offset >= 0
        THEN split_to(input, offset, log)
        ELSE Err(Kind("TakeUntil", "", "Recovable", Range(start(input), start(input))),
                 input, log)

\* the offset reached by the `loop` of take_while and take_while_range_from:
\* the sum of the lengths of the leading items on which the closure holds; the
\* closure is cond, or its negation when neg
RECURSIVE while_offset(_, _, _, _)
while_offset(cond, neg, input, offset) ==
    IF offset < len(input) /\ (Pred(cond, iter_at(input, offset)) # neg)
    THEN while_offset(cond, neg, input, offset + item_len(iter_at(input, offset)))
    ELSE offset

\* the offset reached by `while offset < n` of take_while_range_to and
\* take_while_range
RECURSIVE while_offset_to(_, _, _, _)
while_offset_to(n, cond, input, offset) ==
    IF offset < n /\ offset < len(input) /\ Pred(cond, iter_at(input, offset))
    THEN while_offset_to(n, cond, input, offset + item_len(iter_at(input, offset)))
    ELSE offset

\* take_while's body for the closure (cond, neg)
take_while_closure(cond, neg, input) ==
    split_to(input, while_offset(cond, neg, input, 0), <<Ev("take_while", input, 0)>>)

take_while(cond, input) == take_while_closure(cond, FALSE, input)

\* take_till(cond) is take_while(move |c| !cond(c))
take_till(cond, input) == take_while_closure(cond, TRUE, input)

take_while_range_to(n, cond, input) ==
    split_to(input, while_offset_to(n, cond, input, 0),
             <<Ev("take_while_range_to", input, n)>>)

take_while_range_from(n, cond, input) ==
    LET offset == while_offset(cond, FALSE, input, 0)
        log == <<Ev("take_while_range_from", input, n)>>
    IN  IF offset < n
        THEN Err(Kind("TakeWhileFrom", "", "Recovable",
                      Range(start(input), start(input) + offset)), input, log)
        ELSE split_to(input, offset, log)

\* take_while_range(lo..hi, cond)
take_while_range(lo, hi, cond, input) ==
    LET offset == while_offset_to(hi, cond, input, 0)
        log == <<Ev("take_while_range", input, hi)>>
    IN  IF offset < lo
        THEN Err(Kind("TakeWhileRange", "", "Recovable",
                      Range(start(input), start(input) + offset)), input, log)
        ELSE split_to(input, offset, log)

(***************************************************************************)
(* Combinators (parser.rs).  Parse is the dispatch on the parser's tag.    *)
(***************************************************************************)
RECURSIVE Parse(_, _)

\* IsOk::parse without `*input = snapshot`
IsOk_parse_norestore(P, input) ==
    LET r == Parse(P, input) IN
    IF r.ok THEN Ok(ValSome(r.val), r.input, r.log)
    ELSE IF control_flow(r.err) = "Fatal" THEN Err(r.err, r.input, r.log)
    ELSE Ok(ValNone, r.input, r.log)

\* IsOk::parse without the Fatal arm
IsOk_parse_swallow(P, input) ==
    LET snapshot == input
        r == Parse(P, input)
    IN  IF r.ok THEN Ok(ValSome(r.val), r.input, r.log)
        ELSE Ok(ValNone, snapshot, r.log)

\* IsOk::parse with a guard that lets only Recovable errors become None
IsOk_parse_incomplete(P, input) ==
    LET snapshot == input
        r == Parse(P, input)
    IN  IF r.ok THEN Ok(ValSome(r.val), r.input, r.log)
        ELSE IF control_flow(r.err) # "Recovable" THEN Err(r.err, r.input, r.log)
        ELSE Ok(ValNone, snapshot, r.log)

\* IsOk::parse: only a Fatal error passes; any other error restores the
\* snapshot and gives None
IsOk_parse(P, input) ==
    LET snapshot == input
        r == Parse(P, input)
    IN  IF r.ok THEN Ok(ValSome(r.val), r.input, r.log)
        ELSE IF control_flow(r.err) = "Fatal" THEN Err(r.err, r.input, r.log)
        ELSE Ok(ValNone, snapshot, r.log)

\* the error functions handed to map_err
ApplyMapErr(f, err) ==
    CASE err.kind = "Panic" -> err
      [] f.f = "none" -> err
      [] f.f = "into_fatal" -> into_fatal(err)
      [] f.f = "map" -> Kind(f.kind, f.name, control_flow(err), err.span)

MapErr_parse(P, f, input) ==
    LET r == Parse(P, input) IN
    IF r.ok THEN r ELSE Err(ApplyMapErr(f, r.err), r.input, r.log)

Fatal_parse(P, input) ==
    LET r == Parse(P, input) IN
    IF r.ok THEN r ELSE Err(into_fatal(r.err), r.input, r.log)

\* Or::parse with the first parser run on the cursor itself and no restore
Or_parse_noclone(L, R, input) ==
    LET r == Parse(L, input) IN
    IF r.ok THEN r
    ELSE IF control_flow(r.err) = "Fatal" THEN Err(r.err, input, r.log)
    ELSE LET r2 == Parse(R, r.input) IN
         [r2 EXCEPT !.log = r.log \o r2.log]

\* Or::parse with the ok() of the first parser run on the cursor itself
Or_parse_advancing(L, R, input) ==
    LET r == IsOk_parse(L, input) IN
    IF ~r.ok THEN Err(r.err, r.input, r.log)
    ELSE IF r.val.tag = "Some" THEN Ok(r.val.v, r.input, r.log)
    ELSE LET r2 == Parse(R, input) IN
         [r2 EXCEPT !.log = r.log \o r2.log]

\* Or::parse: the first parser runs under ok() on a clone of the cursor
Or_parse(L, R, input) ==
    LET try_input == input
        r == IsOk_parse(L, try_input)
    IN  IF ~r.ok THEN Err(r.err, input, r.log)
        ELSE IF r.val.tag = "Some" THEN Ok(r.val.v, r.input, r.log)
        ELSE LET r2 == Parse(R, input) IN
             [r2 EXCEPT !.log = r.log \o r2.log]

(***************************************************************************)
(* Generic Syntax nodes (syntax.rs).                                       *)
(***************************************************************************)
\* PhantomData<T>::parse: Ok(Self::default()), the cursor is not read
PhantomData_parse(input) == Ok([tag |-> "PhantomData"], input, <<>>)

\* Option<T>::parse is T::into_parser().ok().parse(input)
Option_parse(T, input) == IsOk_parse(T, input)

\* Char<I, C> / Byte<I, C>: next(C).map(Self)
Char_parse(C, input) ==
    LET r == next(C, input) IN
    IF r.ok THEN Ok([tag |-> "Char", v |-> r.val], r.input, r.log) ELSE r

RECURSIVE Vec_loop(_, _, _, _)
RECURSIVE Vec_loop_partial(_, _, _, _)

\* a variant that returns the elements parsed so far when T fails Fatal
Vec_loop_partial(T, input, elms, log) ==
    LET r == IsOk_parse(T, input) IN
    IF ~r.ok \/ r.val.tag = "None"
    THEN Ok([tag |-> "Vec", elms |-> elms], r.input, log \o r.log)
    ELSE Vec_loop_partial(T, r.input, Append(elms, r.val.v), log \o r.log)

\* Vec<T>::parse: push elements until ok() gives None; `?` returns a Fatal
Vec_loop(T, input, elms, log) ==
    LET r == IsOk_parse(T, input) IN
    IF ~r.ok THEN Err(r.err, r.input, log \o r.log)
    ELSE IF r.val.tag = "None"
         THEN Ok([tag |-> "Vec", elms |-> elms], r.input, log \o r.log)
         ELSE Vec_loop(T, r.input, Append(elms, r.val.v), log \o r.log)

Vec_parse(T, input) == Vec_loop(T, input, <<>>, <<>>)

\* Delimiter::parse looking for End before Body
Delimiter_parse_endfirst(Start, End, Body, input) ==
    LET s == Parse(Start, input) IN
    IF ~s.ok THEN s
    ELSE LET e == Parse(End, s.input) IN
         IF ~e.ok THEN Err(e.err, e.input, s.log \o e.log)
         ELSE LET b == Parse(Body, e.input) IN
              IF ~b.ok THEN Err(b.err, b.input, s.log \o e.log \o b.log)
              ELSE Ok([tag |-> "Delimiter", start |-> s.val, end |-> e.val, body |-> b.val],
                      b.input, s.log \o e.log \o b.log)

\* Delimiter::parse: Start, then Body, then End
Delimiter_parse(Start, End, Body, input) ==
    LET s == Parse(Start, input) IN
    IF ~s.ok THEN s
    ELSE LET b == Parse(Body, s.input) IN
         IF ~b.ok THEN Err(b.err, b.input, s.log \o b.log)
         ELSE LET e == Parse(End, b.input) IN
              IF ~e.ok THEN Err(e.err, e.input, s.log \o b.log \o e.log)
              ELSE Ok([tag |-> "Delimiter", start |-> s.val, end |-> e.val, body |-> b.val],
                      e.input, s.log \o b.log \o e.log)

RECURSIVE Punctuated_loop(_, _, _, _, _)
RECURSIVE Punctuated_loop_notrailing(_, _, _, _, _)

\* a variant that never returns a value ending with a separator: when T does
\* not follow a separator, the T of the last pair becomes the tail
Punctuated_loop_notrailing(T, P, input, pairs, log) ==
    LET t == IsOk_parse(T, input) IN
    IF ~t.ok THEN Err(t.err, t.input, log \o t.log)
    ELSE IF t.val.tag = "None"
         THEN IF pairs = <<>>
              THEN Ok([tag |-> "Punctuated", pairs |-> pairs, tail |-> ValNone],
                      t.input, log \o t.log)
              ELSE Ok([tag |-> "Punctuated", pairs |-> SubSeq(pairs, 1, Len(pairs) - 1),
                       tail |-> ValSome(pairs[Len(pairs)].fields[1])],
                      t.input, log \o t.log)
         ELSE LET p == IsOk_parse(P, t.input) IN
              IF ~p.ok THEN Err(p.err, p.input, log \o t.log \o p.log)
              ELSE IF p.val.tag = "None"
                   THEN Ok([tag |-> "Punctuated", pairs |-> pairs,
                            tail |-> ValSome(t.val.v)],
                           p.input, log \o t.log \o p.log)
                   ELSE Punctuated_loop_notrailing(T, P, p.input,
                            Append(pairs, [tag |-> "Tuple", fields |-> <<t.val.v, p.val.v>>]),
                            log \o t.log \o p.log)

RECURSIVE Punctuated_loop_droptail(_, _, _, _, _)

\* a variant that forgets the T that was not followed by P
Punctuated_loop_droptail(T, P, input, pairs, log) ==
    LET t == IsOk_parse(T, input) IN
    IF ~t.ok THEN Err(t.err, t.input, log \o t.log)
    ELSE IF t.val.tag = "None"
         THEN Ok([tag |-> "Punctuated", pairs |-> pairs, tail |-> ValNone],
                 t.input, log \o t.log)
         ELSE LET p == IsOk_parse(P, t.input) IN
              IF ~p.ok THEN Err(p.err, p.input, log \o t.log \o p.log)
              ELSE IF p.val.tag = "None"
                   THEN Ok([tag |-> "Punctuated", pairs |-> pairs, tail |-> ValNone],
                           p.input, log \o t.log \o p.log)
                   ELSE Punctuated_loop_droptail(T, P, p.input,
                            Append(pairs, [tag |-> "Tuple", fields |-> <<t.val.v, p.val.v>>]),
                            log \o t.log \o p.log)

\* Punctuated::parse: loop of T then P, each under ok()
Punctuated_loop(T, P, input, pairs, log) ==
    LET t == IsOk_parse(T, input) IN
    IF ~t.ok THEN Err(t.err, t.input, log \o t.log)
    ELSE IF t.val.tag = "None"
         THEN Ok([tag |-> "Punctuated", pairs |-> pairs, tail |-> ValNone],
                 t.input, log \o t.log)
         ELSE LET p == IsOk_parse(P, t.input) IN
              IF ~p.ok THEN Err(p.err, p.input, log \o t.log \o p.log)
              ELSE IF p.val.tag = "None"
                   THEN Ok([tag |-> "Punctuated", pairs |-> pairs,
                            tail |-> ValSome(t.val.v)],
                           p.input, log \o t.log \o p.log)
                   ELSE Punctuated_loop(T, P, p.input,
                            Append(pairs, [tag |-> "Tuple", fields |-> <<t.val.v, p.val.v>>]),
                            log \o t.log \o p.log)

Punctuated_parse(T, P, input) == Punctuated_loop(T, P, input, <<>>, <<>>)

\* one pass of the loop of Punctuated::parse: what T and P gave under ok()
Punctuated_pass(T, P, input) ==
    LET t == IsOk_parse(T, input) IN
    IF ~t.ok THEN Err(t.err, t.input, t.log)
    ELSE IF t.val.tag = "None"
         THEN Ok([tag |-> "Pass", t |-> ValNone, p |-> ValNone], t.input, t.log)
         ELSE LET p == IsOk_parse(P, t.input) IN
              IF ~p.ok THEN Err(p.err, p.input, t.log \o p.log)
              ELSE Ok([tag |-> "Pass", t |-> t.val, p |-> p.val], p.input, t.log \o p.log)

Punctuated_len(v) == Len(v.pairs) + (IF v.tail.tag = "Some" THEN 1 ELSE 0)

\* Or<F, S>::parse: F under ok() on the cursor itself, otherwise S
SyntaxOr_parse(F, S, input) ==
    LET f == IsOk_parse(F, input) IN
    IF ~f.ok THEN f
    ELSE IF f.val.tag = "Some"
         THEN Ok([tag |-> "First", v |-> f.val.v], f.input, f.log)
         ELSE LET s == Parse(S, f.input) IN
              IF ~s.ok THEN Err(s.err, s.input, f.log \o s.log)
              ELSE Ok([tag |-> "Second", v |-> s.val], s.input, f.log \o s.log)

(***************************************************************************)
(* The parsers the derive macro generates (derive/src/syntax.rs).          *)
(* A field is [p, crucial, map_err]; NoMap says the option is absent.      *)
(***************************************************************************)
NoMap == [f |-> "none", kind |-> "", name |-> ""]

IntoFatalMap == [f |-> "into_fatal", kind |-> "", name |-> ""]

MapTo(kind, name) == [f |-> "map", kind |-> kind, name |-> name]

Field(p, crucial, map_err) == [p |-> p, crucial |-> crucial, map_err |-> map_err]

\* one field: #parse #map_err #into_fatal ?  where into_fatal is present
\* when an earlier field was crucial
parse_field(field, map_err, committed, input) ==
    LET r == Parse(field.p, input) IN
    IF r.ok THEN r
    ELSE LET e1 == ApplyMapErr(map_err, r.err)
             e2 == IF committed THEN into_fatal(e1) ELSE e1
         IN  Err(e2, r.input, r.log)

RECURSIVE parse_fields(_, _, _, _, _, _, _)
RECURSIVE parse_fields_nonmonotone(_, _, _, _, _, _, _)

\* a variant whose flag follows the last field only instead of staying set
parse_fields_nonmonotone(fields, i, committed, map_err_global, input, acc, log) ==
    IF i > Len(fields) THEN Ok(acc, input, log)
    ELSE LET field == fields[i]
             map_err == IF field.map_err.f # "none" THEN field.map_err ELSE map_err_global
             r == parse_field(field, map_err, committed, input)
         IN  IF ~r.ok THEN Err(r.err, r.input, log \o r.log)
             ELSE parse_fields_nonmonotone(fields, i + 1, field.crucial, map_err_global,
                                           r.input, Append(acc, r.val), log \o r.log)

\* the fields left to right; a field without map_err takes map_err_global
parse_fields(fields, i, committed, map_err_global, input, acc, log) ==
    IF i > Len(fields) THEN Ok(acc, input, log)
    ELSE LET field == fields[i]
             map_err == IF field.map_err.f # "none" THEN field.map_err ELSE map_err_global
             r == parse_field(field, map_err, committed, input)
         IN  IF ~r.ok THEN Err(r.err, r.input, log \o r.log)
             ELSE parse_fields(fields, i + 1, committed \/ field.crucial, map_err_global,
                               r.input, Append(acc, r.val), log \o r.log)

\* The function named by the item-level option semantic, called with the
\* value the fields gave: #semantic(#parse).  "none" is the absent option
\* (Ok(#parse)); the others stand for functions a user can write:
\*   accept            |v| Ok(v)
\*   refuse            |_| Err(Semantics(StrContent, Span::None)), Fatal
\*   refuse_recovable  |_| Err(Syntax("Semantic", Recovable, Span::None))
Semantic(f, v) ==
    CASE f \in {"none", "accept"} -> [ok |-> TRUE, val |-> v, err |-> NoErr]
      [] f = "refuse" ->
            [ok |-> FALSE, val |-> NoVal,
             err |-> Kind("Semantics", "StrContent", "Fatal", SpanNone)]
      [] f = "refuse_recovable" ->
            [ok |-> FALSE, val |-> NoVal,
             err |-> Kind("Syntax", "Semantic", "Recovable", SpanNone)]

\* #semantic(#parse), or Ok(#parse) without the option: the cursor stays where
\* the fields left it
apply_semantic(f, v, input, log) ==
    LET s == Semantic(f, v) IN
    IF s.ok THEN Ok(s.val, input, log) ELSE Err(s.err, input, log)

\* derive_syntax_for_struct: item-level keyword / take_while / char, or the
\* fields and then the semantic function
derive_syntax_for_struct(item, input) ==
    LET wrap(r) == IF r.ok
                   THEN Ok([tag |-> "Struct", name |-> item.name, fields |-> <<r.val>>],
                           r.input, r.log)
                   ELSE Err(ApplyMapErr(item.map_err, r.err), r.input, r.log)
    IN  CASE item.kind = "keyword" -> wrap(keyword(item.arg, input))
          [] item.kind = "take_while" -> wrap(take_while_range_from(1, item.arg, input))
          [] item.kind = "char" -> wrap(next(item.arg, input))
          [] OTHER ->
               LET r == parse_fields(item.fields, 1, FALSE, item.map_err, input, <<>>, <<>>)
               IN  IF r.ok
                   THEN apply_semantic(item.semantic,
                            [tag |-> "Struct", name |-> item.name, fields |-> r.val],
                            r.input, r.log)
                   ELSE r

\* the closure generated for one enum variant: the fields, then the semantic
\* function of the item
variant_parse(p, input) ==
    LET r == parse_fields(p.fields, 1, FALSE, NoMap, input, <<>>,
                          <<Ev("variant", input, p.idx)>>)
    IN  IF r.ok
        THEN apply_semantic(p.semantic,
                 [tag |-> "Enum", name |-> p.name, variant |-> p.idx, fields |-> r.val],
                 r.input, r.log)
        ELSE r

RECURSIVE enum_variants(_, _, _, _)
RECURSIVE enum_variants_noabort(_, _, _, _)

\* a variant that goes on to the next alternative after a Fatal error
enum_variants_noabort(item, i, input, log) ==
    IF i > Len(item.variants)
    THEN Err(ApplyMapErr(item.map_err,
                 Kind("Syntax", item.name, "Recovable", to_span_at(input, 1))),
             input, log)
    ELSE LET r == Parse([tag |-> "variant", name |-> item.name, idx |-> i,
                         fields |-> item.variants[i], semantic |-> item.semantic], input)
         IN  IF r.ok THEN Ok(r.val, r.input, log \o r.log)
             ELSE enum_variants_noabort(item, i + 1, input, log \o r.log)

\* derive_syntax_for_enum: each variant under ok(), then the Syntax error
enum_variants(item, i, input, log) ==
    IF i > Len(item.variants)
    THEN Err(ApplyMapErr(item.map_err,
                 Kind("Syntax", item.name, "Recovable", to_span_at(input, 1))),
             input, log)
    ELSE LET r == IsOk_parse([tag |-> "variant", name |-> item.name, idx |-> i,
                              fields |-> item.variants[i], semantic |-> item.semantic], input)
         IN  IF ~r.ok THEN Err(r.err, r.input, log \o r.log)
             ELSE IF r.val.tag = "Some" THEN Ok(r.val.v, r.input, log \o r.log)
             ELSE enum_variants(item, i + 1, r.input, log \o r.log)

derive_syntax_for_enum(item, input) == enum_variants(item, 1, input, <<>>)

Struct(name, fields) ==
    [tag |-> "struct", name |-> name, kind |-> "fields", arg |-> "", map_err |-> NoMap,
     semantic |-> "none", fields |-> fields]

TokenStruct(name, kind, arg) ==
    [tag |-> "struct", name |-> name, kind |-> kind, arg |-> arg, map_err |-> NoMap,
     semantic |-> "none", fields |-> <<>>]

Enum(name, variants) ==
    [tag |-> "enum", name |-> name, map_err |-> NoMap, semantic |-> "none",
     variants |-> variants]

(***************************************************************************)
(* Tokens of the unsyn grammar (unsyn/src/lexical).                        *)
(***************************************************************************)
\* S: whitespace, a derived struct with parser = take_while_range_from(1, is_whitespace)
S == Struct("S", <<Field([tag |-> "take_while_range_from", n |-> 1, cond |-> "is_whitespace"],
                         FALSE, NoMap)>>)

\* define_punct!: Option<S>, keyword(value) mapped to the punct kind, Option<S>
Punct_parse(p, input) ==
    LET s0 == Option_parse(S, input) IN
    IF ~s0.ok THEN s0
    ELSE LET k == MapErr_parse([tag |-> "keyword", kw |-> p.value],
                               MapTo("Punct", p.name), s0.input)
         IN  IF ~k.ok THEN Err(k.err, k.input, s0.log \o k.log)
             ELSE LET s1 == Option_parse(S, k.input) IN
                  IF ~s1.ok THEN Err(s1.err, s1.input, s0.log \o k.log \o s1.log)
                  ELSE Ok([tag |-> "Punct", name |-> p.name,
                           f0 |-> s0.val, f1 |-> k.val, f2 |-> s1.val],
                          s1.input, s0.log \o k.log \o s1.log)

Punct(name, value) == [tag |-> "Punct", name |-> name, value |-> value]

\* define_keyword!: keyword(value) mapped to the keyword kind, not followed by
\* an identifier character, then Option<S>
Keyword_parse(p, input) ==
    LET k == MapErr_parse([tag |-> "keyword", kw |-> p.value],
                          MapTo("Keyword", p.name), input)
    IN  IF ~k.ok THEN k
        ELSE IF len(k.input) > 0 /\ Pred("is_alphanumeric_or_underscore", iter_at(k.input, 0))
             THEN Err(Kind("Keyword", p.name, "Recovable", input_to_span(k.val.inp)),
                      k.input, k.log)
             ELSE LET s1 == Option_parse(S, k.input) IN
                  IF ~s1.ok THEN Err(s1.err, s1.input, k.log \o s1.log)
                  ELSE Ok([tag |-> "Keyword", name |-> p.name, f0 |-> k.val, f1 |-> s1.val],
                          s1.input, k.log \o s1.log)

KeywordToken(name, value) == [tag |-> "Keyword", name |-> name, value |-> value]

(***************************************************************************)
(* Hand-written tokens of unsyn: Ident (ident.rs), LitUnicode and LitDec   *)
(* (lit.rs), on a cursor of chars.                                         *)
(***************************************************************************)
Token(name, window) == [tag |-> "Token", name |-> name, v |-> window]

\* the words Ident::parse refuses
IdentKeywords == {<<"l", "e", "x", "e", "r">>, <<"s", "y", "n", "t", "a", "x">>,
                  <<"f", "o", "l", "l", "o", "w", "e", "d">>,
                  <<"e", "x", "c", "e", "p", "t">>, <<"u", "s", "e">>,
                  <<"s", "u", "p", "e", "r">>, <<"c", "r", "a", "t", "e">>,
                  <<"c", "o", "n", "c", "a", "t">>}

\* unsyn Ident::parse
UnsynIdent_parse(input) ==
    LET first == MapErr_parse([tag |-> "next_if", f |-> "is_ident_start"],
                              MapTo("Syntax", "Ident"), input)
    IN  IF ~first.ok THEN first
        ELSE LET rest == take_while("is_xid_continue", first.input)
                 log == first.log \o rest.log
             IN  IF ~rest.ok THEN Err(rest.err, rest.input, log)
                 ELSE LET content == split_to(input, 1 + len(rest.val.inp), log) IN
                      IF ~content.ok THEN Err(content.err, rest.input, log)
                      ELSE IF content.val.inp.value \in IdentKeywords
                           THEN Err(Kind("Semantics", "Keyword", "Fatal",
                                         input_to_span(content.val.inp)), rest.input, log)
                           ELSE Ok(Token("Ident", content.val), rest.input, log)

\* LitUnicode::parse
LitUnicode_parse(input) ==
    LET prefix == MapErr_parse([tag |-> "keyword", kw |-> <<"U", "+">>],
                               MapTo("Syntax", "Unicode"), input)
    IN  IF ~prefix.ok THEN prefix
        ELSE LET digits == take_while_range(4, 5, "is_ascii_hexdigit", prefix.input)
                 log == prefix.log \o digits.log
             IN  IF Panicked(digits) THEN Err(digits.err, digits.input, log)
                 ELSE IF ~digits.ok
                 THEN Err(Kind("Semantics", "Unicode", "Fatal",
                               union(input_to_span(prefix.val.inp), digits.err.span)),
                          digits.input, log)
                 ELSE IF len(digits.input) > 0
                         /\ Pred("is_ascii_hexdigit", iter_at(digits.input, 0))
                 THEN Err(Kind("Semantics", "Unicode", "Fatal",
                               union(input_to_span(prefix.val.inp),
                                     to_span_at(digits.input, 1))),
                          digits.input, log)
                 ELSE LET content == split_to(input, 6, log) IN
                      IF ~content.ok THEN Err(content.err, digits.input, log)
                      ELSE Ok(Token("LitUnicode", content.val), digits.input, log)

\* LitDec::parse
LitDec_parse(input) ==
    LET first == MapErr_parse([tag |-> "next_if", f |-> "is_ascii_digit"],
                              MapTo("Syntax", "Dec"), input)
    IN  IF ~first.ok THEN first
        ELSE LET rest == take_while("is_ascii_digit_or_underscore", first.input)
                 log == first.log \o rest.log
             IN  IF ~rest.ok THEN Err(rest.err, rest.input, log)
                 ELSE LET content == split_to(input, len(rest.val.inp) + 1, log) IN
                      IF ~content.ok THEN Err(content.err, rest.input, log)
                      ELSE Ok(Token("LitDec", content.val), rest.input, log)

(***************************************************************************)
(* Syntax::to_span of a parsed value.                                      *)
(***************************************************************************)
RECURSIVE to_span(_)

RECURSIVE union_spans(_, _, _)
union_spans(vals, i, lhs) ==
    IF i > Len(vals) THEN lhs ELSE union_spans(vals, i + 1, union(lhs, to_span(vals[i])))

Vec_to_span(v) ==
    LET first == IF Len(v.elms) = 0 THEN SpanNone ELSE to_span(v.elms[1])
        last == IF Len(v.elms) = 0 THEN SpanNone ELSE to_span(v.elms[Len(v.elms)])
    IN  union(first, last)

Option_to_span(v) == IF v.tag = "None" THEN SpanNone ELSE to_span(v.v)

Delimiter_to_span(v) == union(to_span(v.start), to_span(v.end))

Punctuated_to_span(v) ==
    union(Vec_to_span([tag |-> "Vec", elms |-> v.pairs]), Option_to_span(v.tail))

\* define_punct! to_span: self.0.to_span() + self.1.to_span()
Punct_to_span(v) == union(to_span(v.f0), to_span(v.f1))

\* define_keyword! to_span: self.0.to_span() + self.1.to_span()
Keyword_to_span(v) == union(to_span(v.f0), to_span(v.f1))

to_span(v) ==
    CASE v.tag = "Input" -> input_to_span(v.inp)
      [] v.tag = "PhantomData" -> SpanNone
      [] v.tag \in {"Some", "None"} -> Option_to_span(v)
      [] v.tag = "Char" -> to_span(v.v)
      [] v.tag = "Vec" -> Vec_to_span(v)
      [] v.tag = "Delimiter" -> Delimiter_to_span(v)
      [] v.tag = "Punctuated" -> Punctuated_to_span(v)
      [] v.tag \in {"First", "Second"} -> to_span(v.v)
      [] v.tag \in {"LimitsTo", "Limits", "LimitsFrom"} -> to_span(v.v)
      [] v.tag \in {"Struct", "Enum", "Tuple"} -> union_spans(v.fields, 1, SpanNone)
      [] v.tag = "Punct" -> Punct_to_span(v)
      [] v.tag = "Keyword" -> Keyword_to_span(v)
      [] v.tag = "Token" -> to_span(v.v)

(***************************************************************************)
(* LimitsTo / Limits / LimitsFrom (syntax.rs): the length of the span of   *)
(* the child.                                                              *)
(***************************************************************************)
\* LimitsTo<T, N>::parse
LimitsTo_parse(T, N, input) ==
    LET start_span == input_to_span(input)
        r == Parse(T, input)
    IN  IF ~r.ok THEN r
        ELSE IF span_len(to_span(r.val)) > N
             THEN Err(Kind("LimitsTo", "", "Recovable", start_span), r.input, r.log)
             ELSE Ok([tag |-> "LimitsTo", v |-> r.val], r.input, r.log)

\* Limits::parse taking len = HIGHER too
Limits_parse_closed(T, LOWER, HIGHER, input) ==
    LET start_span == input_to_span(input)
        r == Parse(T, input)
    IN  IF ~r.ok THEN r
        ELSE IF span_len(to_span(r.val)) < LOWER \/ span_len(to_span(r.val)) > HIGHER
             THEN Err(Kind("Limits", "", "Recovable", start_span), r.input, r.log)
             ELSE Ok([tag |-> "Limits", v |-> r.val], r.input, r.log)

\* Limits<T, LOWER, HIGHER>::parse
Limits_parse(T, LOWER, HIGHER, input) ==
    LET start_span == input_to_span(input)
        r == Parse(T, input)
    IN  IF ~r.ok THEN r
        ELSE IF span_len(to_span(r.val)) < LOWER \/ ~(span_len(to_span(r.val)) < HIGHER)
             THEN Err(Kind("Limits", "", "Recovable", start_span), r.input, r.log)
             ELSE Ok([tag |-> "Limits", v |-> r.val], r.input, r.log)

\* LimitsFrom<T, LOWER>::parse
LimitsFrom_parse(T, LOWER, input) ==
    LET start_span == input_to_span(input)
        r == Parse(T, input)
    IN  IF ~r.ok THEN r
        ELSE IF span_len(to_span(r.val)) < LOWER
             THEN Err(Kind("LimitsFrom", "", "Recovable", start_span), r.input, r.log)
             ELSE Ok([tag |-> "LimitsFrom", v |-> r.val], r.input, r.log)

Parse(p, input) ==
    CASE p.tag = "next" -> next(p.item, input)
      [] p.tag = "next_if" -> next_if(p.f, input)
      [] p.tag = "keyword" -> keyword(p.kw, input)
      [] p.tag = "take_while" -> take_while(p.cond, input)
      [] p.tag = "take_while_range_from" -> take_while_range_from(p.n, p.cond, input)
      [] p.tag = "take_till" -> take_till(p.cond, input)
      [] p.tag = "take_while_range_to" -> take_while_range_to(p.n, p.cond, input)
      [] p.tag = "take_while_range" -> take_while_range(p.lo, p.hi, p.cond, input)
      [] p.tag = "take_until" -> take_until(p.needle, input)
      [] p.tag = "ok" -> IsOk_parse(p.p, input)
      [] p.tag = "map_err" -> MapErr_parse(p.p, p.f, input)
      [] p.tag = "fatal" -> Fatal_parse(p.p, input)
      [] p.tag = "or" -> Or_parse(p.l, p.r, input)
      [] p.tag = "PhantomData" -> PhantomData_parse(input)
      [] p.tag = "Option" -> Option_parse(p.t, input)
      [] p.tag = "Char" -> Char_parse(p.c, input)
      [] p.tag = "Vec" -> Vec_parse(p.t, input)
      [] p.tag = "Delimiter" -> Delimiter_parse(p.start, p.end, p.body, input)
      [] p.tag = "Punctuated" -> Punctuated_parse(p.t, p.p, input)
      [] p.tag = "Punctuated::pass" -> Punctuated_pass(p.t, p.p, input)
      [] p.tag = "Or" -> SyntaxOr_parse(p.f, p.s, input)
      [] p.tag = "LimitsTo" -> LimitsTo_parse(p.t, p.n, input)
      [] p.tag = "Limits" -> Limits_parse(p.t, p.lo, p.hi, input)
      [] p.tag = "LimitsFrom" -> LimitsFrom_parse(p.t, p.lo, input)
      [] p.tag = "struct" -> derive_syntax_for_struct(p, input)
      [] p.tag = "variant" -> variant_parse(p, input)
      [] p.tag = "enum" -> derive_syntax_for_enum(p, input)
      [] p.tag = "Punct" -> Punct_parse(p, input)
      [] p.tag = "Keyword" -> Keyword_parse(p, input)
      [] p.tag = "unsyn::Ident" -> UnsynIdent_parse(input)
      [] p.tag = "LitUnicode" -> LitUnicode_parse(input)
      [] p.tag = "LitDec" -> LitDec_parse(input)

(***************************************************************************)
(* The state machine: a cursor over a source, and the last parser that was *)
(* run on it.  `snapshot` is the cursor as it was before that call,        *)
(* `parser` the parser that ran, `result` what it returned and `input`     *)
(* the caller's cursor afterwards.                                         *)
(***************************************************************************)
VARIABLES input, snapshot, parser, result

vars == <<input, snapshot, parser, result>>

InitOver(A, n) ==
    /\ input \in {TokenStream(o, s) : o \in 0..MaxOffset, s \in Strs(A, n)}
    /\ snapshot = input
    /\ parser = [tag |-> "init"]
    /\ result = Ok(NoVal, input, <<>>)

(***************************************************************************)
(* Spec: the combinators of parser.rs over sources of 'a', 'b' and '1'.    *)
(***************************************************************************)
Alphabet == {"a", "b", "1"}

NextP(c) == [tag |-> "next", item |-> c]

CharP(c) == [tag |-> "Char", c |-> c]

KeywordP(kw) == [tag |-> "keyword", kw |-> kw]

FatalP(p) == [tag |-> "fatal", p |-> p]

WordP == [tag |-> "take_while_range_from", n |-> 1, cond |-> "is_alpha"]

\* 'a' then 'b': fails after consuming 'a' when 'b' does not follow
SeqAB == Struct("AB", <<Field(CharP("a"), FALSE, NoMap), Field(CharP("b"), FALSE, NoMap)>>)

\* 'a' crucial then 'b': the failure of 'b' is Fatal, after consuming 'a'
CutAB == Struct("CutAB", <<Field(CharP("a"), TRUE, NoMap), Field(CharP("b"), FALSE, NoMap)>>)

Inner == {NextP("a"), NextP("b"), KeywordP(<<"a", "b">>), WordP, SeqAB, CutAB,
          FatalP(NextP("a")), FatalP(WordP)}

SyntaxTypes == {CharP("a"), CharP("b"), SeqAB, CutAB}

Enums == {Enum("E", <<vs[1], vs[2]>>) :
            vs \in {<<<<Field(CharP("a"), FALSE, NoMap), Field(CharP("b"), FALSE, NoMap)>>,
                      <<Field(CharP("a"), FALSE, NoMap)>>>>,
                    <<<<Field(CharP("a"), TRUE, NoMap), Field(CharP("b"), FALSE, NoMap)>>,
                      <<Field(CharP("a"), FALSE, NoMap)>>>>,
                    <<<<Field(CharP("b"), FALSE, NoMap)>>,
                      <<Field(CharP("a"), FALSE, NoMap), Field(CharP("1"), FALSE, NoMap)>>>>}}

Init == InitOver(Alphabet, MaxLen)

\* P.ok().parse(&mut input)
ParseIsOk ==
    \E P \in Inner :
        LET r == Parse([tag |-> "ok", p |-> P], input) IN
        /\ parser' = [tag |-> "ok", p |-> P]
        /\ snapshot' = input
        /\ result' = r
        /\ input' = r.input

\* L.or(R).parse(&mut input)
ParseOr ==
    \E L \in Inner, R \in Inner :
        LET r == Parse([tag |-> "or", l |-> L, r |-> R], input) IN
        /\ parser' = [tag |-> "or", l |-> L, r |-> R]
        /\ snapshot' = input
        /\ result' = r
        /\ input' = r.input

\* P.fatal().parse(&mut input)
ParseFatal ==
    \E P \in Inner :
        LET r == Parse(FatalP(P), input) IN
        /\ parser' = FatalP(P)
        /\ snapshot' = input
        /\ result' = r
        /\ input' = r.input

\* Option::<T>::parse(&mut input)
ParseOption ==
    \E T \in SyntaxTypes :
        LET r == Parse([tag |-> "Option", t |-> T], input) IN
        /\ parser' = [tag |-> "Option", t |-> T]
        /\ snapshot' = input
        /\ result' = r
        /\ input' = r.input

\* Or::<F, S>::parse(&mut input)
ParseSyntaxOr ==
    \E F \in SyntaxTypes, S2 \in SyntaxTypes :
        LET r == Parse([tag |-> "Or", f |-> F, s |-> S2], input) IN
        /\ parser' = [tag |-> "Or", f |-> F, s |-> S2]
        /\ snapshot' = input
        /\ result' = r
        /\ input' = r.input

\* E::parse(&mut input) for a derived enum E
ParseEnum ==
    \E E \in Enums :
        LET r == Parse(E, input) IN
        /\ parser' = E
        /\ snapshot' = input
        /\ result' = r
        /\ input' = r.input

\* ParseError::into_fatal applied to an error of any kind
IntoFatal ==
    \E k \in KindNames, cf \in ControlFlow, at \in 0..1 :
        LET e == Kind(k, IF k \in {"Syntax", "Token"} THEN "T" ELSE "", cf,
                      to_span_at(input, at))
        IN  /\ parser' = [tag |-> "into_fatal", e |-> e]
            /\ result' = Err(into_fatal(e), input, <<>>)
            /\ snapshot' = input
            /\ input' = input

Next ==
    \/ ParseIsOk
    \/ ParseOr
    \/ ParseFatal
    \/ ParseOption
    \/ ParseSyntaxOr
    \/ ParseEnum
    \/ IntoFatal

Spec == Init /\ [][Next]_vars

(***************************************************************************)
(* SpecDerive: derived structs and enums with crucial fields over sources  *)
(* of 'l', 'e', 't' and '1', one symbol longer than MaxLen so that "let"   *)
(* can be followed by an identifier.                                       *)
(***************************************************************************)
DeriveAlphabet == {"l", "e", "t", "1"}

\* struct Ident with item-level take_while(is_alpha)
Ident == TokenStruct("Ident", "take_while", "is_alpha")

\* a field with #[parserc(keyword = "let", crucial)]
KwLet == Field(KeywordP(<<"l", "e", "t">>), TRUE, NoMap)

Plain(c) == Field(CharP(c), FALSE, NoMap)

Crucial(c) == Field(CharP(c), TRUE, NoMap)

LetIdent == Struct("LetIdent", <<KwLet, Field(Ident, FALSE, NoMap)>>)

DeriveStructs ==
    {LetIdent,
     Struct("Head", <<Crucial("l"), Plain("e"), Plain("t")>>),
     Struct("Mid", <<Plain("l"), Crucial("e"), Plain("t")>>),
     Struct("NoCut", <<Plain("l"), Plain("e"), Plain("t")>>),
     Struct("Mapped", <<Crucial("l"), Field(CharP("e"), FALSE, MapTo("Token", "e"))>>),
     Struct("Outer", <<Plain("1"), Field(LetIdent, FALSE, NoMap)>>)}

\* enum A { First(#[crucial] let, Ident), Second(Ident) }
LetA == Enum("A", << <<KwLet, Field(Ident, FALSE, NoMap)>>, <<Field(Ident, FALSE, NoMap)>> >>)

DeriveEnums ==
    {LetA,
     Enum("B", << <<Plain("l"), Plain("e")>>, <<Crucial("l"), Plain("t")>>,
                  <<Field(Ident, FALSE, NoMap)>> >>),
     Enum("D", << <<Plain("l"), Plain("e")>>, <<Plain("t")>> >>)}

InitDerive == InitOver(DeriveAlphabet, MaxLen + 1)

\* T::parse(&mut input) for a derived struct T
DeriveStructParse ==
    \E T \in DeriveStructs :
        LET r == Parse(T, input) IN
        /\ parser' = T
        /\ snapshot' = input
        /\ result' = r
        /\ input' = r.input

\* E::parse(&mut input) for a derived enum E
DeriveEnumParse ==
    \E E \in DeriveEnums :
        LET r == Parse(E, input) IN
        /\ parser' = E
        /\ snapshot' = input
        /\ result' = r
        /\ input' = r.input

NextDerive ==
    \/ DeriveStructParse
    \/ DeriveEnumParse

SpecDerive == InitDerive /\ [][NextDerive]_vars

(***************************************************************************)
(* SpecSyntax: the generic Syntax nodes, the unsyn tokens and derived      *)
(* types over sources of 'a', ',', ' ', '(' and ')'.                       *)
(***************************************************************************)
SyntaxAlphabet == {"a", ",", " ", "(", ")"}

OptionT(T) == [tag |-> "Option", t |-> T]

VecT(T) == [tag |-> "Vec", t |-> T]

PunctuatedT(T, P) == [tag |-> "Punctuated", t |-> T, p |-> P]

DelimiterT(Start, End, Body) ==
    [tag |-> "Delimiter", start |-> Start, end |-> End, body |-> Body]

Comma == Punct("Comma", <<",">>)

ParenStart == Punct("ParenStart", <<"(">>)

ParenEnd == Punct("ParenEnd", <<")">>)

Elements == {CharP("a"), CharP(","), Ident, Comma, S}

Separated == {PunctuatedT(Ident, Comma), PunctuatedT(CharP("a"), CharP(",")),
              PunctuatedT(Ident, CharP(","))}

Delimited == {DelimiterT(CharP("("), CharP(")"), VecT(CharP("a"))),
              DelimiterT(ParenStart, ParenEnd, PunctuatedT(Ident, Comma)),
              DelimiterT(CharP("("), CharP(")"), OptionT(Ident))}

PunctTokens == {Comma, ParenStart, ParenEnd}

KeywordTokens == {KeywordToken("A", <<"a">>), KeywordToken("AA", <<"a", "a">>)}

Derived == {Struct("Arg", <<Field(Ident, FALSE, NoMap), Field(OptionT(S), FALSE, NoMap)>>),
            Struct("Lead", <<Field(OptionT(S), FALSE, NoMap), Field(Ident, FALSE, NoMap),
                             Field(OptionT(CharP(",")), FALSE, NoMap)>>),
            Enum("Tok", << <<Field(Ident, FALSE, NoMap)>>, <<Field(CharP(","), FALSE, NoMap)>>,
                           <<Field(S, FALSE, NoMap)>> >>)}

InitSyntax == InitOver(SyntaxAlphabet, MaxLen)

\* Option::<T>::parse(&mut input)
SyntaxOptionParse ==
    \E T \in Elements :
        LET r == Parse(OptionT(T), input) IN
        /\ parser' = OptionT(T)
        /\ snapshot' = input
        /\ result' = r
        /\ input' = r.input

\* Vec::<T>::parse(&mut input)
SyntaxVecParse ==
    \E T \in Elements :
        LET r == Parse(VecT(T), input) IN
        /\ parser' = VecT(T)
        /\ snapshot' = input
        /\ result' = r
        /\ input' = r.input

\* Punctuated::<T, P>::parse(&mut input)
SyntaxPunctuatedParse ==
    \E T \in Separated :
        LET r == Parse(T, input) IN
        /\ parser' = T
        /\ snapshot' = input
        /\ result' = r
        /\ input' = r.input

\* Delimiter::<Start, End, Body>::parse(&mut input)
SyntaxDelimiterParse ==
    \E T \in Delimited :
        LET r == Parse(T, input) IN
        /\ parser' = T
        /\ snapshot' = input
        /\ result' = r
        /\ input' = r.input

\* a define_punct! token's parse(&mut input)
SyntaxPunctParse ==
    \E T \in PunctTokens :
        LET r == Parse(T, input) IN
        /\ parser' = T
        /\ snapshot' = input
        /\ result' = r
        /\ input' = r.input

\* a define_keyword! token's parse(&mut input)
SyntaxKeywordParse ==
    \E T \in KeywordTokens :
        LET r == Parse(T, input) IN
        /\ parser' = T
        /\ snapshot' = input
        /\ result' = r
        /\ input' = r.input

\* a derived struct's or enum's parse(&mut input)
SyntaxDerivedParse ==
    \E T \in Derived :
        LET r == Parse(T, input) IN
        /\ parser' = T
        /\ snapshot' = input
        /\ result' = r
        /\ input' = r.input

NextSyntax ==
    \/ SyntaxOptionParse
    \/ SyntaxVecParse
    \/ SyntaxPunctuatedParse
    \/ SyntaxDelimiterParse
    \/ SyntaxPunctParse
    \/ SyntaxKeywordParse
    \/ SyntaxDerivedParse

SpecSyntax == InitSyntax /\ [][NextSyntax]_vars

(***************************************************************************)
(* SpecRepeat: the repetition nodes Vec<T> and Punctuated<T, P> over       *)
(* sources of 'a', 'b', 'c' and ',', two symbols longer than MaxLen so     *)
(* that "a,b,c" is among them.                                             *)
(***************************************************************************)
RepeatAlphabet == {"a", "b", "c", ","}

\* a separator that commits on ',' and then wants 'b'
CutSep == Struct("CutSep", <<Crucial(","), Plain("b")>>)

RepeatElements == {CharP("a"), Ident, SeqAB, CutAB}

RepeatSeparated == {PunctuatedT(Ident, CharP(",")), PunctuatedT(CharP("a"), CharP(",")),
                    PunctuatedT(CutAB, CharP(",")), PunctuatedT(CharP("a"), CutSep)}

InitRepeat == InitOver(RepeatAlphabet, MaxLen + 2)

\* Vec::<T>::parse(&mut input)
RepeatVecParse ==
    \E T \in RepeatElements :
        LET r == Parse(VecT(T), input) IN
        /\ parser' = VecT(T)
        /\ snapshot' = input
        /\ result' = r
        /\ input' = r.input

\* Punctuated::<T, P>::parse(&mut input)
RepeatPunctuatedParse ==
    \E T \in RepeatSeparated :
        LET r == Parse(T, input) IN
        /\ parser' = T
        /\ snapshot' = input
        /\ result' = r
        /\ input' = r.input

NextRepeat ==
    \/ RepeatVecParse
    \/ RepeatPunctuatedParse

SpecRepeat == InitRepeat /\ [][NextRepeat]_vars

(***************************************************************************)
(* SpecLex: the recognizers of c.rs on both cursor flavours, over the      *)
(* UTF-8 sources made of 'a', '1' and U+00E9 (two code units).             *)
(***************************************************************************)
MaxCount == 3

LexChars == {"a", "1", "U+E9"}

\* the code units of a string of chars
RECURSIVE encode(_)
encode(chars) == IF chars = <<>> THEN <<>> ELSE utf8(Head(chars)) \o encode(Tail(chars))

\* the items a parser can be given: any char, any u8 of the sources
LexItems(flavour) == IF flavour = "chars" THEN LexChars ELSE {"a", "1", "C3", "A9"}

\* the closures over char and over u8
LexConds(flavour) ==
    IF flavour = "chars"
    THEN {"is_alpha", "is_alphabetic", "any"}
    ELSE {"is_alpha", "is_lead_byte", "is_non_ascii", "any"}

\* &str needles: the code units of a string of chars
LexStrNeedles == {encode(w) : w \in {<<>>, <<"a">>, <<"a", "1">>, <<"U+E9">>, <<"U+E9", "a">>}}

\* &[u8] needles: any bytes, which may end or begin inside a code point
LexByteNeedles == {<<"C3">>, <<"A9">>, <<"a", "C3">>, <<"A9", "a">>}

\* the needles of keyword and take_until (StartWith and Find are implemented
\* for &str and for &[u8] on both cursor flavours)
LexNeedles == LexStrNeedles \cup LexByteNeedles

InitLex ==
    /\ input \in {[offset |-> o, value |-> encode(w), flavour |-> f] :
                    o \in 0..MaxOffset, w \in Strs(LexChars, MaxLen), f \in {"chars", "bytes"}}
    /\ snapshot = input
    /\ parser = [tag |-> "init"]
    /\ result = Ok(NoVal, input, <<>>)

\* next(item).parse(&mut input)
LexNext ==
    \E item \in LexItems(input.flavour) :
        LET p == NextP(item)
            r == Parse(p, input)
        IN  /\ ~Panicked(result)
            /\ parser' = p
            /\ snapshot' = input
            /\ result' = r
            /\ input' = r.input

\* keyword(kw).parse(&mut input)
LexKeyword ==
    \E kw \in LexNeedles :
        LET p == KeywordP(kw)
            r == Parse(p, input)
        IN  /\ ~Panicked(result)
            /\ parser' = p
            /\ snapshot' = input
            /\ result' = r
            /\ input' = r.input

\* take_until(needle).parse(&mut input)
LexTakeUntil ==
    \E needle \in LexNeedles :
        LET p == [tag |-> "take_until", needle |-> needle]
            r == Parse(p, input)
        IN  /\ ~Panicked(result)
            /\ parser' = p
            /\ snapshot' = input
            /\ result' = r
            /\ input' = r.input

\* take_while(cond).parse(&mut input)
LexTakeWhile ==
    \E cond \in LexConds(input.flavour) :
        LET p == [tag |-> "take_while", cond |-> cond]
            r == Parse(p, input)
        IN  /\ ~Panicked(result)
            /\ parser' = p
            /\ snapshot' = input
            /\ result' = r
            /\ input' = r.input

\* take_till(cond).parse(&mut input)
LexTakeTill ==
    \E cond \in LexConds(input.flavour) :
        LET p == [tag |-> "take_till", cond |-> cond]
            r == Parse(p, input)
        IN  /\ ~Panicked(result)
            /\ parser' = p
            /\ snapshot' = input
            /\ result' = r
            /\ input' = r.input

\* take_while_range_to(n, cond).parse(&mut input)
LexTakeWhileRangeTo ==
    \E n \in 0..MaxCount, cond \in LexConds(input.flavour) :
        LET p == [tag |-> "take_while_range_to", n |-> n, cond |-> cond]
            r == Parse(p, input)
        IN  /\ ~Panicked(result)
            /\ parser' = p
            /\ snapshot' = input
            /\ result' = r
            /\ input' = r.input

\* take_while_range_from(n, cond).parse(&mut input)
LexTakeWhileRangeFrom ==
    \E n \in 0..MaxCount, cond \in LexConds(input.flavour) :
        LET p == [tag |-> "take_while_range_from", n |-> n, cond |-> cond]
            r == Parse(p, input)
        IN  /\ ~Panicked(result)
            /\ parser' = p
            /\ snapshot' = input
            /\ result' = r
            /\ input' = r.input

\* take_while_range(lo..hi, cond).parse(&mut input)
LexTakeWhileRange ==
    \E lo \in 0..MaxCount, cond \in LexConds(input.flavour) : \E hi \in lo..MaxCount :
        LET p == [tag |-> "take_while_range", lo |-> lo, hi |-> hi, cond |-> cond]
            r == Parse(p, input)
        IN  /\ ~Panicked(result)
            /\ parser' = p
            /\ snapshot' = input
            /\ result' = r
            /\ input' = r.input

NextLex ==
    \/ LexNext
    \/ LexKeyword
    \/ LexTakeUntil
    \/ LexTakeWhile
    \/ LexTakeTill
    \/ LexTakeWhileRangeTo
    \/ LexTakeWhileRangeFrom
    \/ LexTakeWhileRange

SpecLex == InitLex /\ [][NextLex]_vars

(***************************************************************************)
(* SpecLimits: LimitsTo, Limits and LimitsFrom around children that fail   *)
(* recoverably, fail fatally, or never fail.                               *)
(***************************************************************************)
LimitsAlphabet == {"a", "b", ","}

LimitsToT(T, N) == [tag |-> "LimitsTo", t |-> T, n |-> N]

LimitsT(T, LOWER, HIGHER) == [tag |-> "Limits", t |-> T, lo |-> LOWER, hi |-> HIGHER]

LimitsFromT(T, LOWER) == [tag |-> "LimitsFrom", t |-> T, lo |-> LOWER]

\* the types used as T
LimitsChildren == {Ident, VecT(CharP("a")), Comma, CutAB}

InitLimits == InitOver(LimitsAlphabet, MaxLen)

\* LimitsTo::<T, N>::parse(&mut input)
LimitsToParse ==
    \E T \in LimitsChildren, N \in 0..MaxCount :
        LET p == LimitsToT(T, N)
            r == Parse(p, input)
        IN  /\ parser' = p
            /\ snapshot' = input
            /\ result' = r
            /\ input' = r.input

\* Limits::<T, LOWER, HIGHER>::parse(&mut input)
LimitsParse ==
    \E T \in LimitsChildren, LOWER \in 0..MaxCount : \E HIGHER \in LOWER..MaxCount :
        LET p == LimitsT(T, LOWER, HIGHER)
            r == Parse(p, input)
        IN  /\ parser' = p
            /\ snapshot' = input
            /\ result' = r
            /\ input' = r.input

\* LimitsFrom::<T, LOWER>::parse(&mut input)
LimitsFromParse ==
    \E T \in LimitsChildren, LOWER \in 0..MaxCount :
        LET p == LimitsFromT(T, LOWER)
            r == Parse(p, input)
        IN  /\ parser' = p
            /\ snapshot' = input
            /\ result' = r
            /\ input' = r.input

NextLimits ==
    \/ LimitsToParse
    \/ LimitsParse
    \/ LimitsFromParse

SpecLimits == InitLimits /\ [][NextLimits]_vars

(***************************************************************************)
(* SpecDelimiter: Delimiter<Start, End, Body> over parentheses and digits, *)
(* among them the source "(123)".                                          *)
(***************************************************************************)
DelimiterAlphabet == {"(", ")", "1"}

Digits == TokenStruct("Digits", "take_while", "is_digit")

\* two digits, the first one crucial
CutDigits == Struct("CutDigits", <<Field(CharP("1"), TRUE, NoMap),
                                   Field(CharP("1"), FALSE, NoMap)>>)

DelimiterTypes == {DelimiterT(CharP("("), CharP(")"), Digits),
                   DelimiterT(ParenStart, ParenEnd, Digits),
                   DelimiterT(CharP("("), CharP(")"), VecT(CharP("1"))),
                   DelimiterT(ParenStart, ParenEnd, CutDigits)}

InitDelimiter ==
    /\ input \in {TokenStream(o, s) : o \in 0..MaxOffset,
                                      s \in Strs(DelimiterAlphabet, MaxLen + 2)}
                 \cup {TokenStream(0, <<"(", "1", "2", "3", ")">>)}
    /\ snapshot = input
    /\ parser = [tag |-> "init"]
    /\ result = Ok(NoVal, input, <<>>)

\* Delimiter::<Start, End, Body>::parse(&mut input)
DelimiterParse ==
    \E T \in DelimiterTypes :
        LET r == Parse(T, input) IN
        /\ parser' = T
        /\ snapshot' = input
        /\ result' = r
        /\ input' = r.input

NextDelimiter == DelimiterParse

SpecDelimiter == InitDelimiter /\ [][NextDelimiter]_vars

(***************************************************************************)
(* SpecCursor: sequences of split_to / split_off with at <= len() on both  *)
(* cursor flavours.                                                        *)
(***************************************************************************)
InitCursor == InitLex

\* input.split_to(at)
SplitTo ==
    \E at \in 0..len(input) :
        LET r == split_to(input, at, <<>>) IN
        /\ ~Panicked(result)
        /\ parser' = [tag |-> "split_to", at |-> at]
        /\ snapshot' = input
        /\ result' = r
        /\ input' = r.input

\* input.split_off(at)
SplitOff ==
    \E at \in 0..len(input) :
        LET r == split_off(input, at, <<>>) IN
        /\ ~Panicked(result)
        /\ parser' = [tag |-> "split_off", at |-> at]
        /\ snapshot' = input
        /\ result' = r
        /\ input' = r.input

NextCursor ==
    \/ SplitTo
    \/ SplitOff

SpecCursor == InitCursor /\ [][NextCursor]_vars

(***************************************************************************)
(* SpecTokens: the hand-written tokens Ident and LitDec of unsyn on a      *)
(* cursor of chars, over sources with a two-unit char.                     *)
(***************************************************************************)
TokenChars == {"u", "s", "e", "1", "U+E9"}

UnsynIdent == [tag |-> "unsyn::Ident"]

LitDec == [tag |-> "LitDec"]

InitTokens ==
    /\ input \in {TokenStream(o, encode(w)) : o \in 0..MaxOffset, w \in Strs(TokenChars, MaxLen)}
    /\ snapshot = input
    /\ parser = [tag |-> "init"]
    /\ result = Ok(NoVal, input, <<>>)

\* Ident::parse(&mut input)
UnsynIdentParse ==
    LET r == Parse(UnsynIdent, input) IN
    /\ ~Panicked(result)
    /\ parser' = UnsynIdent
    /\ snapshot' = input
    /\ result' = r
    /\ input' = r.input

\* LitDec::parse(&mut input)
LitDecParse ==
    LET r == Parse(LitDec, input) IN
    /\ ~Panicked(result)
    /\ parser' = LitDec
    /\ snapshot' = input
    /\ result' = r
    /\ input' = r.input

NextTokens ==
    \/ UnsynIdentParse
    \/ LitDecParse

SpecTokens == InitTokens /\ [][NextTokens]_vars

(***************************************************************************)
(* SpecMapErr: derived structs and enums carrying an item-level            *)
(* #[parserc(map_err = F)].                                                *)
(***************************************************************************)
\* the item-level F, of the shape of SyntaxKind::X.map()
ItemF == MapTo("Syntax", "F")

\* a field-level map_err
FieldF == MapTo("Punct", "G")

WithMapErr(item) == [item EXCEPT !.map_err = ItemF]

\* the item with #[parserc(semantic = f)]
WithSemantic(item, f) == [item EXCEPT !.semantic = f]

MapErrStructs ==
    {WithMapErr(Struct("Seq", <<Plain("l"), Plain("e")>>)),
     WithSemantic(WithMapErr(Struct("Sem", <<Plain("l"), Plain("e")>>)), "refuse"),
     WithSemantic(WithMapErr(Struct("SemOk", <<Plain("l"), Plain("e")>>)), "accept"),
     WithMapErr(Struct("Cut", <<Crucial("l"), Plain("e")>>)),
     WithMapErr(Struct("Own", <<Plain("l"), Field(CharP("e"), FALSE, FieldF)>>)),
     WithMapErr(TokenStruct("Word", "take_while", "is_alpha")),
     WithMapErr(TokenStruct("Let", "keyword", <<"l", "e", "t">>))}

MapErrEnums ==
    {WithMapErr(Enum("Alt", << <<Plain("l"), Plain("e")>>, <<Plain("t")>> >>)),
     WithSemantic(WithMapErr(Enum("SemAlt", << <<Plain("l")>>, <<Plain("t")>> >>)), "refuse"),
     WithSemantic(WithMapErr(Enum("SemRetry", << <<Plain("l")>>, <<Plain("l"), Plain("e")>> >>)),
                  "refuse_recovable"),
     WithMapErr(Enum("CutAlt", << <<Crucial("l"), Plain("e")>>, <<Plain("t")>> >>)),
     WithMapErr(Enum("OwnAlt", << <<Field(CharP("l"), TRUE, FieldF), Plain("e")>>,
                                  <<Plain("t")>> >>))}

InitMapErr == InitOver(DeriveAlphabet, MaxLen)

\* <derived struct with map_err>::parse(&mut input)
MapErrStructParse ==
    \E T \in MapErrStructs :
        LET r == Parse(T, input) IN
        /\ parser' = T
        /\ snapshot' = input
        /\ result' = r
        /\ input' = r.input

\* <derived enum with map_err>::parse(&mut input)
MapErrEnumParse ==
    \E E \in MapErrEnums :
        LET r == Parse(E, input) IN
        /\ parser' = E
        /\ snapshot' = input
        /\ result' = r
        /\ input' = r.input

NextMapErr ==
    \/ MapErrStructParse
    \/ MapErrEnumParse

SpecMapErr == InitMapErr /\ [][NextMapErr]_vars

(***************************************************************************)
(* SpecItemConfig: ItemConfig::parse of the derive macro, one item-level   *)
(* option of #[parserc(...)] at a time.  `parser` holds the options read   *)
(* so far and the fields already set, `result` the Result of the parse.    *)
(***************************************************************************)
MaxOptions == 4

ItemOptions == {"input", "map_err", "keyword", "take_while", "char", "semantic", "other"}

\* the syn::Error of a refused option
ConfigError(msg) == Kind("syn::Error", msg, "Fatal", SpanNone)

\* the body of the closure given to syn::meta::parser: "" when the option is
\* taken, the message of the error otherwise
ItemConfig_error(set, ident) ==
    CASE ident = "input" -> IF "input" \in set THEN "Call input twice." ELSE ""
      [] ident = "map_err" -> IF "map_err" \in set THEN "Call map_err twice." ELSE ""
      [] ident = "keyword" ->
            IF "take_while" \in set \/ "char" \in set
            THEN "The syntax has been set as a take_while or char."
            ELSE IF "keyword" \in set THEN "Call keyword twice." ELSE ""
      [] ident = "take_while" ->
            IF "keyword" \in set \/ "char" \in set
            THEN "The syntax has been set as a keyword or char."
            ELSE IF "take_while" \in set THEN "Call take_while twice." ELSE ""
      [] ident = "char" ->
            IF "keyword" \in set \/ "take_while" \in set
            THEN "The syntax has been set as a keyword or take_while."
            ELSE IF "char" \in set THEN "Call char twice." ELSE ""
      [] ident = "semantic" ->
            IF "keyword" \in set \/ "take_while" \in set
            THEN "The syntax has been set as a keyword or take_while."
            ELSE IF "char" \in set THEN "Call char twice." ELSE ""
      [] OTHER -> "Unsupport macro syntax option " \o ident \o "."

InitItemConfig ==
    /\ input = TokenStream(0, <<>>)
    /\ snapshot = input
    /\ parser = [tag |-> "ItemConfig", options |-> <<>>, set |-> {}]
    /\ result = Ok(NoVal, input, <<>>)

\* the next option of the list: taken, or the parse returns its error
ItemConfigOption ==
    \E ident \in ItemOptions :
        LET msg == ItemConfig_error(parser.set, ident) IN
        /\ parser.tag = "ItemConfig"
        /\ result.ok
        /\ Len(parser.options) < MaxOptions
        /\ parser' = [parser EXCEPT !.options = Append(@, ident),
                                    !.set = IF msg = "" THEN @ \cup {ident} ELSE @]
        /\ result' = IF msg = "" THEN result ELSE Err(ConfigError(msg), input, <<>>)
        /\ UNCHANGED <<input, snapshot>>

NextItemConfig == ItemConfigOption

SpecItemConfig == InitItemConfig /\ [][NextItemConfig]_vars

(***************************************************************************)
(* SpecFieldConfig: FieldConfig::parse of the derive macro, one field-     *)
(* level option of #[parserc(...)] at a time, as SpecItemConfig does for   *)
(* the item.  The derived parse function of a type exists only when the    *)
(* options of every field are taken.                                       *)
(***************************************************************************)
FieldOptions == {"crucial", "map_err", "keyword", "take_while", "parser", "left_recursion"}

\* the body of the closure given to syn::meta::parser: "" when the option is
\* taken, the message of the error otherwise
FieldConfig_error(set, ident) ==
    CASE ident = "crucial" -> ""
      [] ident = "map_err" -> IF "map_err" \in set THEN "Call map_err twice." ELSE ""
      [] ident = "keyword" ->
            IF "take_while" \in set \/ "parser" \in set
            THEN "The syntax has been set as a parser or take_while."
            ELSE IF "keyword" \in set THEN "Call keyword twice." ELSE ""
      [] ident = "take_while" ->
            IF "keyword" \in set \/ "parser" \in set
            THEN "The syntax has been set as a keyword or parser."
            ELSE IF "take_while" \in set THEN "Call token twice." ELSE ""
      [] ident = "parser" ->
            IF "take_while" \in set \/ "keyword" \in set
            THEN "The syntax has been set as a keyword or take_while."
            ELSE IF "parser" \in set THEN "Call parser twice." ELSE ""
      [] OTHER -> "Unsupport macro parserc option " \o ident \o "."

InitFieldConfig ==
    /\ input = TokenStream(0, <<>>)
    /\ snapshot = input
    /\ parser = [tag |-> "FieldConfig", options |-> <<>>, set |-> {}]
    /\ result = Ok(NoVal, input, <<>>)

\* the next option of the list: taken, or the parse returns its error
FieldConfigOption ==
    \E ident \in FieldOptions :
        LET msg == FieldConfig_error(parser.set, ident) IN
        /\ parser.tag = "FieldConfig"
        /\ result.ok
        /\ Len(parser.options) < MaxOptions
        /\ parser' = [parser EXCEPT !.options = Append(@, ident),
                                    !.set = IF msg = "" THEN @ \cup {ident} ELSE @]
        /\ result' = IF msg = "" THEN result ELSE Err(ConfigError(msg), input, <<>>)
        /\ UNCHANGED <<input, snapshot>>

NextFieldConfig == FieldConfigOption

SpecFieldConfig == InitFieldConfig /\ [][NextFieldConfig]_vars

(***************************************************************************)
(* SpecUnicode: LitUnicode::parse of unsyn on a cursor of chars, over      *)
(* sources made of a prefix, a run of hex digits and a tail.               *)
(***************************************************************************)
UnicodePrefixes == {<<>>, <<"U">>, <<"+">>, <<"U", "+">>}

UnicodeDigits == Strs({"1", "a"}, MaxLen + 3)

UnicodeTails == {<<>>, <<"x">>, <<"U">>}

LitUnicode == [tag |-> "LitUnicode"]

InitUnicode ==
    /\ input \in {TokenStream(o, p \o d \o t) :
                      o \in 0..MaxOffset, p \in UnicodePrefixes,
                      d \in UnicodeDigits, t \in UnicodeTails}
    /\ snapshot = input
    /\ parser = [tag |-> "init"]
    /\ result = Ok(NoVal, input, <<>>)

\* LitUnicode::parse(&mut input)
LitUnicodeParse ==
    LET r == Parse(LitUnicode, input) IN
    /\ ~Panicked(result)
    /\ parser' = LitUnicode
    /\ snapshot' = input
    /\ result' = r
    /\ input' = r.input

NextUnicode == LitUnicodeParse

SpecUnicode == InitUnicode /\ [][NextUnicode]_vars

(***************************************************************************)
(* SpecTotal: the loops of Vec<T>::parse and Punctuated<T, P>::parse, one  *)
(* iteration at a time.  `parser` holds the type being parsed and whether  *)
(* its loop is still running (pc), `result` the elements pushed so far.    *)
(* The loops have no bound of their own; MaxIter caps the elements the     *)
(* model follows.                                                          *)
(***************************************************************************)
MaxIter == 4

TotalAlphabet == {"a", ","}

PhantomDataT == [tag |-> "PhantomData"]

\* element types: one that consumes when it succeeds, and three that can
\* succeed on nothing
TotalElements == {CharP("a"), PhantomDataT, OptionT(CharP("a")), VecT(CharP("a"))}

TotalSeparators == {CharP(","), PhantomDataT, OptionT(CharP(","))}

InitTotal ==
    /\ input \in {TokenStream(o, s) : o \in 0..MaxOffset, s \in Strs(TotalAlphabet, MaxLen)}
    /\ snapshot = input
    /\ parser = [tag |-> "init", pc |-> "done"]
    /\ result = Ok(NoVal, input, <<>>)

\* Vec::<T>::parse(&mut input) up to the loop: let mut elms = vec![]
VecStart ==
    \E T \in TotalElements :
        /\ parser.pc = "done"
        /\ parser' = [tag |-> "Vec", t |-> T, pc |-> "loop"]
        /\ snapshot' = input
        /\ result' = Ok([tag |-> "Vec", elms |-> <<>>], input, <<>>)
        /\ UNCHANGED input

\* one pass of the loop of Vec::<T>::parse
VecIteration ==
    LET r == Parse([tag |-> "ok", p |-> parser.t], input) IN
    /\ parser.tag = "Vec"
    /\ parser.pc = "loop"
    /\ Len(result.val.elms) < MaxIter
    /\ input' = r.input
    /\ UNCHANGED snapshot
    /\ IF ~r.ok
       THEN /\ result' = Err(r.err, r.input, result.log \o r.log)
            /\ parser' = [parser EXCEPT !.pc = "done"]
       ELSE IF r.val.tag = "None"
       THEN /\ result' = Ok(result.val, r.input, result.log \o r.log)
            /\ parser' = [parser EXCEPT !.pc = "done"]
       ELSE /\ result' = Ok([tag |-> "Vec", elms |-> Append(result.val.elms, r.val.v)],
                            r.input, result.log \o r.log)
            /\ UNCHANGED parser

\* Punctuated::<T, P>::parse(&mut input) up to the loop: let mut pairs = vec![]
PunctuatedStart ==
    \E T \in TotalElements, P \in TotalSeparators :
        /\ parser.pc = "done"
        /\ parser' = [tag |-> "Punctuated", t |-> T, p |-> P, pc |-> "loop"]
        /\ snapshot' = input
        /\ result' = Ok([tag |-> "Punctuated", pairs |-> <<>>, tail |-> ValNone], input, <<>>)
        /\ UNCHANGED input

\* one pass of the loop of Punctuated::<T, P>::parse
PunctuatedIteration ==
    LET r == Parse([tag |-> "Punctuated::pass", t |-> parser.t, p |-> parser.p], input) IN
    /\ parser.tag = "Punctuated"
    /\ parser.pc = "loop"
    /\ Len(result.val.pairs) < MaxIter
    /\ input' = r.input
    /\ UNCHANGED snapshot
    /\ IF ~r.ok
       THEN /\ result' = Err(r.err, r.input, result.log \o r.log)
            /\ parser' = [parser EXCEPT !.pc = "done"]
       ELSE IF r.val.t.tag = "None"
       THEN /\ result' = Ok(result.val, r.input, result.log \o r.log)
            /\ parser' = [parser EXCEPT !.pc = "done"]
       ELSE IF r.val.p.tag = "None"
       THEN /\ result' = Ok([result.val EXCEPT !.tail = ValSome(r.val.t.v)],
                            r.input, result.log \o r.log)
            /\ parser' = [parser EXCEPT !.pc = "done"]
       ELSE /\ result' = Ok([result.val EXCEPT !.pairs =
                                Append(@, [tag |-> "Tuple",
                                           fields |-> <<r.val.t.v, r.val.p.v>>])],
                            r.input, result.log \o r.log)
            /\ UNCHANGED parser

NextTotal ==
    \/ VecStart
    \/ VecIteration
    \/ PunctuatedStart
    \/ PunctuatedIteration

SpecTotal == InitTotal /\ [][NextTotal]_vars

\* the first (or only) sub-parser of the parser that ran, and what it does
\* on the cursor the call started from
FirstOf(p) ==
    CASE p.tag \in {"ok", "fatal"} -> p.p
      [] p.tag = "or" -> p.l
      [] p.tag = "Option" -> p.t
      [] p.tag = "Or" -> p.f

SecondOf(p) == IF p.tag = "or" THEN p.r ELSE p.s

FirstRun == Parse(FirstOf(parser), snapshot)

SecondRun == Parse(SecondOf(parser), snapshot)

TypeOK ==
    /\ snapshot.offset <= input.offset
    /\ end(input) = end(snapshot)

VariantRun(i) ==
    Parse([tag |-> "variant", name |-> parser.name, idx |-> i,
           fields |-> parser.variants[i], semantic |-> parser.semantic], snapshot)

NonFatal(r) == ~r.ok /\ control_flow(r.err) # "Fatal"

IsFatal(r) == ~r.ok /\ control_flow(r.err) = "Fatal"

IsIncomplete(r) == ~r.ok /\ control_flow(r.err) = "Incomplete"

Consumed(r) == r.input.offset - snapshot.offset

SameOutcome(r1, r2) ==
    /\ r1.ok = r2.ok
    /\ r1.val = r2.val
    /\ r1.err = r2.err
    /\ r1.input = r2.input

(***************************************************************************)
(* C1: ok() (and Option<T>, which is ok() of T's parser) turns a non-Fatal *)
(* failure of the inner parser into Ok(None) and leaves the cursor equal   *)
(* to its pre-call value, offset and value, however much the inner parser  *)
(* consumed before failing; a success v of the inner parser gives          *)
(* Ok(Some(v)) with the cursor where the inner parser left it.             *)
(***************************************************************************)
C1_OkRestoresOnNonFatal ==
    parser.tag \in {"ok", "Option"} =>
        /\ NonFatal(FirstRun) =>
              /\ result.ok
              /\ result.val = ValNone
              /\ input.offset = snapshot.offset
              /\ input.value = snapshot.value
        /\ FirstRun.ok =>
              /\ result.ok
              /\ result.val = ValSome(FirstRun.val)
              /\ input = FirstRun.input

\* ok() ran on a parser that consumed input and then failed non-Fatally
C1_Witness ==
    /\ parser.tag = "ok"
    /\ NonFatal(FirstRun)
    /\ Consumed(FirstRun) > 0
    /\ result.val = ValNone
    /\ input = snapshot

(***************************************************************************)
(* C2: commit rule.  When the inner parser of ok(), the first parser of    *)
(* or(a, b) or the first alternative of Or<F, S> fails with a Fatal error, *)
(* the caller gets that same error and nothing else is run: the history of *)
(* the call is the history of the first parser alone.                      *)
(***************************************************************************)
C2_CommitRule ==
    (parser.tag \in {"ok", "or", "Or"} /\ IsFatal(FirstRun)) =>
        /\ ~result.ok
        /\ result.err = FirstRun.err
        /\ result.log = FirstRun.log

\* or(a, b) where a failed Fatal although b would have parsed the input
C2_Witness ==
    /\ parser.tag = "or"
    /\ IsFatal(FirstRun)
    /\ SecondRun.ok
    /\ ~result.ok
    /\ result.err = FirstRun.err

(***************************************************************************)
(* C3: or(a, b) against its reference.  If a succeeds the result is a's    *)
(* value with the cursor where a left it; if a fails non-Fatally the       *)
(* result is whatever b returns on the pre-call cursor, so when both fail  *)
(* the error is b's.                                                       *)
(***************************************************************************)
C3_OrReference ==
    parser.tag = "or" =>
        /\ FirstRun.ok =>
              /\ result.ok
              /\ result.val = FirstRun.val
              /\ input = FirstRun.input
        /\ NonFatal(FirstRun) => SameOutcome(result, SecondRun)
        /\ (NonFatal(FirstRun) /\ ~SecondRun.ok) => result.err = SecondRun.err

\* both parsers of or(a, b) failed, with different errors, a after consuming
C3_Witness ==
    /\ parser.tag = "or"
    /\ NonFatal(FirstRun)
    /\ Consumed(FirstRun) > 0
    /\ ~SecondRun.ok
    /\ SecondRun.err # FirstRun.err
    /\ result.err = SecondRun.err

(***************************************************************************)
(* C4: fatal() returns the error of the wrapped parser with control flow   *)
(* Fatal and the same kind, name and span; into_fatal changes only the     *)
(* control-flow tag of each of the 13 kinds.                                *)
(***************************************************************************)
C4_FatalPreservesKindAndSpan ==
    /\ (parser.tag = "fatal" /\ ~FirstRun.ok) =>
          /\ ~result.ok
          /\ result.err = [FirstRun.err EXCEPT !.cf = "Fatal"]
    /\ parser.tag = "into_fatal" => result.err = [parser.e EXCEPT !.cf = "Fatal"]

\* the cursor field i of a field list starts from when the fields before it
\* succeeded, and the field's own parser run there
RECURSIVE FieldCursor(_, _, _)
FieldCursor(fields, i, c) ==
    IF i = 1 THEN c ELSE Parse(fields[i - 1].p, FieldCursor(fields, i - 1, c)).input

FieldRun(fields, i, c) == Parse(fields[i].p, FieldCursor(fields, i, c))

\* the field that fails first, if any
FailingFields(fields, c) ==
    {i \in 1..Len(fields) :
        /\ ~FieldRun(fields, i, c).ok
        /\ \A j \in 1..(i - 1) : FieldRun(fields, j, c).ok}

CrucialBefore(fields, i) == \E j \in 1..(i - 1) : fields[j].crucial

\* what the crucial flag asks of the outcome r of a field list run on c
CrucialRule(fields, c, r) ==
    /\ r.ok <=> FailingFields(fields, c) = {}
    /\ \A i \in FailingFields(fields, c) :
          /\ ~r.ok
          /\ CrucialBefore(fields, i) => control_flow(r.err) = "Fatal"
          /\ ~CrucialBefore(fields, i) =>
                control_flow(r.err) = control_flow(FieldRun(fields, i, c).err)

VariantEvents(log) == SelectSeq(log, LAMBDA e : e.ev = "variant")

(***************************************************************************)
(* C5: in a derived struct or enum variant the crucial flag is set once a  *)
(* crucial field has parsed and stays set: the failure of any later field  *)
(* is Fatal, the failure of a field with no crucial field before it (the   *)
(* crucial field itself included) keeps the control flow its parser gave.  *)
(* For enum A = First(crucial "let", Ident) | Second(Ident) on the source  *)
(* "let" the result is a Fatal error and Second is never attempted.        *)
(***************************************************************************)
C5_CrucialCommits ==
    /\ (parser.tag = "struct" /\ parser.kind = "fields") =>
          CrucialRule(parser.fields, snapshot, result)
    /\ parser.tag = "enum" =>
          \A i \in 1..Len(parser.variants) :
              CrucialRule(parser.variants[i], snapshot, VariantRun(i))
    /\ (parser = LetA /\ snapshot.value = <<"l", "e", "t">>) =>
          /\ IsFatal(result)
          /\ VariantEvents(result.log) = <<Ev("variant", snapshot, 1)>>

C5_Witness ==
    /\ parser = LetA
    /\ snapshot.value = <<"l", "e", "t">>
    /\ IsFatal(result)
    /\ Parse(Ident, snapshot).ok

\* the first variant that does not fail non-Fatally; Len + 1 when all do
FirstDecisive ==
    LET n == Len(parser.variants)
        d == {i \in 1..n : ~NonFatal(VariantRun(i))}
    IN  IF d = {} THEN n + 1 ELSE CHOOSE i \in d : \A j \in d : i <= j

(***************************************************************************)
(* C6: a derived enum attempts its variants in declaration order, each     *)
(* from the cursor the call started at.  The first variant that succeeds   *)
(* gives the value and the cursor; a variant that fails non-Fatally is     *)
(* given up and the next one is attempted; a Fatal failure is returned at  *)
(* once and no later variant is attempted; when every variant fails        *)
(* non-Fatally the error is Syntax(<type name>, Recovable, span) and the   *)
(* cursor equals its pre-call value.                                       *)
(***************************************************************************)
C6_EnumAlternation ==
    (parser.tag = "enum" /\ parser \in DeriveEnums) =>
        LET n == Len(parser.variants)
            k == FirstDecisive
        IN  /\ VariantEvents(result.log) =
                  [i \in 1..Min(k, n) |-> Ev("variant", snapshot, i)]
            /\ (k <= n /\ VariantRun(k).ok) =>
                  /\ result.ok
                  /\ result.val = VariantRun(k).val
                  /\ result.val.variant = k
                  /\ input = VariantRun(k).input
            /\ (k <= n /\ ~VariantRun(k).ok) =>
                  /\ ~result.ok
                  /\ result.err = VariantRun(k).err
                  /\ is_fatal(result.err)
            /\ k = n + 1 =>
                  /\ ~result.ok
                  /\ result.err = Kind("Syntax", parser.name, "Recovable",
                                       to_span_at(snapshot, 1))
                  /\ input = snapshot

C6_Witness ==
    /\ parser.tag = "enum"
    /\ FirstDecisive = Len(parser.variants) + 1
    /\ \E i \in 1..Len(parser.variants) : Consumed(VariantRun(i)) > 0
    /\ ~result.ok
    /\ result.err.kind = "Syntax"
    /\ input = snapshot

(***************************************************************************)
(* C7: a Fatal failure after consuming k > 0 code units.  As claimed, for  *)
(* both ok() and or() the caller's cursor is advanced by k.                *)
(***************************************************************************)
C7_FatalLeavesCursorAdvanced ==
    (parser.tag \in {"ok", "or"} /\ IsFatal(FirstRun) /\ Consumed(FirstRun) > 0) =>
        /\ input # snapshot
        /\ input.offset = snapshot.offset + Consumed(FirstRun)

(***************************************************************************)
(* C7 as amended: after such a failure ok() leaves the caller's cursor     *)
(* advanced by the k code units (it runs the parser on the cursor itself), *)
(* while or() leaves the caller's cursor at its pre-call value (the first  *)
(* parser ran on a clone).                                                 *)
(***************************************************************************)
C7_FatalCursorOkAdvancedOrUnchanged ==
    (parser.tag \in {"ok", "or"} /\ IsFatal(FirstRun) /\ Consumed(FirstRun) > 0) =>
        /\ ~result.ok
        /\ parser.tag = "ok" => input = FirstRun.input
        /\ parser.tag = "or" => input = snapshot

\* or(a, b) where a failed Fatal after consuming input
C7_Witness ==
    /\ parser.tag = "or"
    /\ IsFatal(FirstRun)
    /\ Consumed(FirstRun) > 0
    /\ input = snapshot

(***************************************************************************)
(* C8: as claimed, an Incomplete error of the inner parser is propagated   *)
(* by ok(), or(), Or<F, S> and the derived alternation like a Fatal one.   *)
(***************************************************************************)
C8_IncompleteActsLikeFatal ==
    /\ (parser.tag \in {"ok", "or", "Or", "Option"} /\ IsIncomplete(FirstRun)) =>
          /\ ~result.ok
          /\ result.err = FirstRun.err
    /\ (parser.tag = "enum" /\ IsIncomplete(VariantRun(1))) =>
          /\ ~result.ok
          /\ result.err = VariantRun(1).err

(***************************************************************************)
(* C8 as amended: an Incomplete error is backtracked over like a           *)
(* Recoverable one.  ok() gives Ok(None) with the cursor restored, or()    *)
(* and Or<F, S> run the second alternative on the pre-call cursor, and the *)
(* derived alternation goes on to its next variant.                        *)
(***************************************************************************)
C8_IncompleteActsLikeRecoverable ==
    /\ (parser.tag \in {"ok", "Option"} /\ IsIncomplete(FirstRun)) =>
          /\ result.ok
          /\ result.val = ValNone
          /\ input = snapshot
    /\ (parser.tag = "or" /\ IsIncomplete(FirstRun)) => SameOutcome(result, SecondRun)
    /\ (parser.tag = "Or" /\ IsIncomplete(FirstRun)) =>
          /\ result.ok = SecondRun.ok
          /\ result.err = SecondRun.err
          /\ input = SecondRun.input
    /\ (parser.tag = "enum" /\ IsIncomplete(VariantRun(1))) =>
          /\ Ev("variant", snapshot, 2) \in {result.log[i] : i \in 1..Len(result.log)}
          /\ SameOutcome(result, [VariantRun(2) EXCEPT !.log = result.log])
             \/ NonFatal(VariantRun(2))

\* the alternation went past a variant that hit the end of the input
C8_Witness ==
    /\ parser.tag = "enum"
    /\ IsIncomplete(VariantRun(1))
    /\ Consumed(VariantRun(1)) > 0
    /\ result.ok
    /\ result.val.variant = 2

\* the caller's cursor as it was at offset q of the last call
CursorAt(q) == split_to_rest(snapshot, q - snapshot.offset)

(***************************************************************************)
(* C9: for every T: Syntax, after T::parse moved the cursor from s0 to s1  *)
(* and returned v, v.to_span() is Range(s0, s1).  Stated here for the      *)
(* parses that consumed at least one code unit, which leaves out the       *)
(* values whose span is Span::None (a None, an empty Vec or Punctuated).   *)
(***************************************************************************)
C9_SpanCoversConsumed ==
    (parser.tag # "init" /\ result.ok /\ input.offset > snapshot.offset) =>
        to_span(result.val) = Range(snapshot.offset, input.offset)

(***************************************************************************)
(* C10: as claimed, a Punctuated value never ends with a separator: tail   *)
(* is Some whenever pairs is non-empty.                                    *)
(***************************************************************************)
C10_NeverEndsWithSeparator ==
    (parser.tag = "Punctuated" /\ result.ok) =>
        (result.val.pairs # <<>> => result.val.tail.tag = "Some")

(***************************************************************************)
(* C10 as the code has it: a Punctuated value ends with a separator        *)
(* whenever no T follows the last separator.  tail is None exactly when    *)
(* the loop stopped at a T that did not match, and then, with pairs        *)
(* non-empty, the last thing consumed is the separator of the last pair;   *)
(* tail is Some exactly when the last T was not followed by P, and then    *)
(* the tail is the last thing consumed.                                    *)
(***************************************************************************)
C10_TailIffNoSeparatorFollows ==
    (parser.tag = "Punctuated" /\ result.ok) =>
        LET v == result.val
            n == Len(v.pairs)
        IN  /\ v.tail.tag = "None" =>
                  /\ NonFatal(Parse(parser.t, input))
                  /\ n > 0 =>
                        LET q == to_span(v.pairs[n].fields[1]).end
                            sep == Parse(parser.p, CursorAt(q))
                        IN  /\ sep.ok
                            /\ sep.val = v.pairs[n].fields[2]
                            /\ sep.input = input
            /\ v.tail.tag = "Some" =>
                  /\ NonFatal(Parse(parser.p, input))
                  /\ to_span(v.tail.v).end = input.offset

C10_Witness ==
    /\ parser.tag = "Punctuated"
    /\ result.ok
    /\ result.val.pairs # <<>>
    /\ result.val.tail.tag = "None"
    /\ input.offset > snapshot.offset

\* the cursor at which the i-th T of a T P T P ... sequence begins, when the
\* i - 1 pairs before it parsed; the runs of that T and of the P after it
RECURSIVE PairStart(_, _, _, _)
PairStart(T, P, c, i) ==
    IF i = 1 THEN c
    ELSE Parse(P, Parse(T, PairStart(T, P, c, i - 1)).input).input

TRun(i) == Parse(parser.t, PairStart(parser.t, parser.p, snapshot, i))

PRun(i) == Parse(parser.p, TRun(i).input)

(***************************************************************************)
(* C11: Punctuated<T, P>::parse alternates T and P from the cursor.  The   *)
(* pairs are the (T, P) pairs parsed, in order; the parse stops with tail  *)
(* None at the first non-Fatal non-match of T and with tail Some(t) at the *)
(* first non-Fatal non-match of P after a successful T; len() is the       *)
(* number of pairs plus one for a tail; a parse that is not cut by a Fatal *)
(* error succeeds, the empty sequence included.  "a,b,c" gives two pairs   *)
(* and tail c (len 3), "a,b," gives the pairs (a ,) (b ,) and no tail      *)
(* (len 2).                                                                *)
(***************************************************************************)
C11_PunctuatedAlternates ==
    parser.tag = "Punctuated" =>
        /\ ~result.ok => is_fatal(result.err)
        /\ result.ok =>
              LET v == result.val
                  n == Len(v.pairs)
              IN  /\ \A i \in 1..n :
                        /\ TRun(i).ok
                        /\ PRun(i).ok
                        /\ v.pairs[i] = [tag |-> "Tuple",
                                         fields |-> <<TRun(i).val, PRun(i).val>>]
                  /\ v.tail.tag = "None" =>
                        /\ NonFatal(TRun(n + 1))
                        /\ input = PairStart(parser.t, parser.p, snapshot, n + 1)
                        /\ Punctuated_len(v) = n
                  /\ v.tail.tag = "Some" =>
                        /\ TRun(n + 1).ok
                        /\ v.tail.v = TRun(n + 1).val
                        /\ NonFatal(PRun(n + 1))
                        /\ input = TRun(n + 1).input
                        /\ Punctuated_len(v) = n + 1
        /\ (parser = PunctuatedT(Ident, CharP(",")) /\ snapshot.value = <<"a", ",", "b", ",", "c">>) =>
              /\ result.ok
              /\ Len(result.val.pairs) = 2
              /\ result.val.tail.tag = "Some"
              /\ to_span(result.val.tail.v) = Range(snapshot.offset + 4, snapshot.offset + 5)
              /\ Punctuated_len(result.val) = 3
        /\ (parser = PunctuatedT(Ident, CharP(",")) /\ snapshot.value = <<"a", ",", "b", ",">>) =>
              /\ result.ok
              /\ Len(result.val.pairs) = 2
              /\ result.val.tail.tag = "None"
              /\ Punctuated_len(result.val) = 2
              /\ len(input) = 0

C11_Witness ==
    /\ parser = PunctuatedT(Ident, CharP(","))
    /\ snapshot.value = <<"a", ",", "b", ",", "c">>
    /\ result.ok
    /\ Punctuated_len(result.val) = 3

\* the cursor at which the i-th element of a run of T begins, and the first
\* element of the run that does not parse
RECURSIVE ElemStart(_, _, _)
ElemStart(T, c, i) == IF i = 1 THEN c ELSE Parse(T, ElemStart(T, c, i - 1)).input

ElemRun(i) == Parse(parser.t, ElemStart(parser.t, snapshot, i))

RECURSIVE FirstNotOk(_)
FirstNotOk(i) == IF ElemRun(i).ok THEN FirstNotOk(i + 1) ELSE i

(***************************************************************************)
(* C12: Vec<T>::parse returns the elements of the maximal run of           *)
(* consecutive successful T parses, in order.  It stops at the first       *)
(* non-Fatal failure of T with the cursor just after the last successful   *)
(* element; a Fatal failure of T makes the whole parse fail with that      *)
(* error and no vector; on an empty cursor it returns the empty vector.    *)
(***************************************************************************)
C12_VecMaximalRun ==
    parser.tag = "Vec" =>
        LET k == FirstNotOk(1) IN
        /\ IsFatal(ElemRun(k)) =>
              /\ ~result.ok
              /\ result.val = NoVal
              /\ result.err = ElemRun(k).err
        /\ NonFatal(ElemRun(k)) =>
              /\ result.ok
              /\ Len(result.val.elms) = k - 1
              /\ \A i \in 1..(k - 1) : result.val.elms[i] = ElemRun(i).val
              /\ input = ElemStart(parser.t, snapshot, k)
        /\ len(snapshot) = 0 => (result.ok /\ result.val.elms = <<>> /\ input = snapshot)

C12_Witness ==
    /\ parser.tag = "Vec"
    /\ result.ok
    /\ Len(result.val.elms) >= 2
    /\ NonFatal(Parse(parser.t, input))
    /\ Parse(parser.t, input).input.offset > input.offset

(***************************************************************************)
(* Recognizers (SpecLex).                                                  *)
(***************************************************************************)
\* the items of a cursor from code unit `offset` on, as its iterator yields them
RECURSIVE items_from(_, _)
items_from(c, offset) ==
    IF offset >= Len(c.value) THEN <<>>
    ELSE LET item == iter_at(c, offset)
         IN  <<item>> \o items_from(c, offset + item_len(item))

\* number of leading items of `its` on which the closure holds
LeadingItems(cond, neg, its) ==
    LET ks == {k \in 0..Len(its) : \A i \in 1..k : Pred(cond, its[i]) # neg}
    IN  CHOOSE k \in ks : \A k2 \in ks : k2 <= k

\* code units taken by the first k items of `its`
RECURSIVE CodeUnits(_, _)
CodeUnits(its, k) == IF k = 0 THEN 0 ELSE item_len(its[k]) + CodeUnits(its, k - 1)

\* the parse succeeded with the first u code units as its window and the
\* cursor left right after them
SplitAt(u) ==
    /\ result.ok
    /\ result.val = Window([snapshot EXCEPT !.value = SubSeq(snapshot.value, 1, u)])
    /\ input = [snapshot EXCEPT !.offset = snapshot.offset + u,
                                !.value = SubSeq(snapshot.value, u + 1, Len(snapshot.value))]

\* the parse failed with this error and left the cursor where it was
FailedWith(kind, cf, span) ==
    /\ ~result.ok
    /\ result.err = Kind(kind, "", cf, span)
    /\ input = snapshot

\* C13: take_while(pred) on any cursor, of bytes or of chars, and for any
\* predicate, succeeds with the longest prefix whose items all satisfy pred,
\* possibly empty, and leaves the cursor right after it; take_till(pred) is
\* take_while of the negated predicate.
C13_TakeWhileLongestPrefix ==
    parser.tag \in {"take_while", "take_till"} =>
        LET its == items_from(snapshot, 0)
            m == LeadingItems(parser.cond, parser.tag = "take_till", its)
        IN  SplitAt(CodeUnits(its, m))

\* C14: keyword(k) succeeds exactly when the leading code units of the cursor
\* are k; it then returns those Len(k) code units as its window and advances
\* the cursor by Len(k); otherwise it leaves the cursor unchanged and fails
\* with Keyword(Recovable, Range(start, min(start + Len(k), end))).
C14_KeywordPrefix ==
    parser.tag = "keyword" =>
        LET k == parser.kw
            leading == /\ Len(k) <= Len(snapshot.value)
                       /\ \A i \in 1..Len(k) : snapshot.value[i] = k[i]
        IN  IF leading
            THEN SplitAt(Len(k))
            ELSE FailedWith("Keyword", "Recovable",
                            Range(snapshot.offset,
                                  Min(snapshot.offset + Len(k),
                                      snapshot.offset + Len(snapshot.value))))

\* C15: next(item) fails with Next(Incomplete, to_span), a zero-length span,
\* on an empty cursor and with Next(Recovable, to_span_at(1)) when the head
\* item differs, leaving the cursor unchanged both times; when the head is
\* item it returns the head as its window and advances the cursor by the
\* encoded length of the item: 1 on a cursor of bytes, the UTF-8 length of the
\* code point on a cursor of chars.
C15_NextHead ==
    parser.tag = "next" =>
        LET its == items_from(snapshot, 0)
            s0 == snapshot.offset
        IN  IF its = <<>>
            THEN FailedWith("Next", "Incomplete", Range(s0, s0))
            ELSE IF its[1] # parser.item
                 THEN FailedWith("Next", "Recovable",
                                 Range(s0, Min(s0 + 1, s0 + Len(snapshot.value))))
                 ELSE SplitAt(IF snapshot.flavour = "bytes" THEN 1
                              ELSE Len(utf8(parser.item)))

\* C16: on a cursor of chars, take_while_range_from(n, pred) compares the
\* number of leading items satisfying pred, not their code units, with n:
\* with fewer than n such items it fails with TakeWhileFrom(Recovable, span
\* of the matched prefix) and leaves the cursor unchanged, otherwise it
\* returns the whole matching prefix.
C16_FromCountsItems ==
    parser.tag = "take_while_range_from" /\ snapshot.flavour = "chars" =>
        LET its == items_from(snapshot, 0)
            m == LeadingItems(parser.cond, FALSE, its)
            u == CodeUnits(its, m)
        IN  IF m < parser.n
            THEN FailedWith("TakeWhileFrom", "Recovable",
                            Range(snapshot.offset, snapshot.offset + u))
            ELSE SplitAt(u)

\* C17: on a cursor of chars, take_while_range_to(n, pred) never fails and
\* returns exactly min(m, n) items, m being the number of leading items that
\* satisfy pred.
C17_ToCapsItems ==
    parser.tag = "take_while_range_to" /\ snapshot.flavour = "chars" =>
        LET its == items_from(snapshot, 0)
            m == LeadingItems(parser.cond, FALSE, its)
        IN  SplitAt(CodeUnits(its, Min(m, parser.n)))

\* C18: on a cursor of chars, take_while_range(lo..hi, pred), with m leading
\* items satisfying pred, fails with TakeWhileRange(Recovable, span of the
\* matched prefix) and leaves the cursor unchanged iff min(m, hi) < lo, and
\* otherwise returns exactly min(m, hi) items.
C18_RangeCountsItems ==
    parser.tag = "take_while_range" /\ snapshot.flavour = "chars" =>
        LET its == items_from(snapshot, 0)
            m == LeadingItems(parser.cond, FALSE, its)
            k == Min(m, parser.hi)
            u == CodeUnits(its, k)
        IN  IF k < parser.lo
            THEN FailedWith("TakeWhileRange", "Recovable",
                            Range(snapshot.offset, snapshot.offset + u))
            ELSE SplitAt(u)

\* the needle of take_until lies at code unit o of the cursor the parse began with
OccursAt(o) ==
    /\ o + Len(parser.needle) <= Len(snapshot.value)
    /\ \A i \in 1..Len(parser.needle) : snapshot.value[o + i] = parser.needle[i]

\* C19: take_until(needle) returns the code units in front of the first
\* occurrence of the needle, an empty window when the cursor starts with it,
\* and leaves the cursor at the needle, which is not consumed; when the needle
\* does not occur it leaves the cursor unchanged and fails with
\* TakeUntil(Recovable, Range(start, start)).
C19_TakeUntilFirstOccurrence ==
    parser.tag = "take_until" =>
        IF \E o \in 0..Len(snapshot.value) : OccursAt(o)
        THEN /\ result.ok
             /\ LET o == Len(result.val.inp.value)
                IN  /\ OccursAt(o)
                    /\ \A o2 \in 0..(o - 1) : ~OccursAt(o2)
                    /\ SplitAt(o)
        ELSE FailedWith("TakeUntil", "Recovable",
                        Range(snapshot.offset, snapshot.offset))

\* C20: when the needle does not occur in the remaining input, take_until
\* fails with an error whose control flow is Incomplete.
C20_NotFoundIsIncomplete ==
    parser.tag = "take_until" /\ ~(\E o \in 0..Len(snapshot.value) : OccursAt(o)) =>
        ~result.ok /\ result.err.cf = "Incomplete"

(***************************************************************************)
(* Limits nodes (SpecLimits).                                              *)
(***************************************************************************)
\* the child of the Limits node that ran, parsed on the cursor it began with
ChildRun == Parse(parser.t, snapshot)

\* span length of the child's value, in code units
ChildLen == span_len(to_span(ChildRun.val))

\* C21: when the child T parsed with a span of len code units, LimitsTo<T, N>
\* succeeds iff len <= N, LimitsFrom<T, LO> iff len >= LO and Limits<T, LO, HI>
\* iff LO <= len < HI; a rejection is an error of the node's own kind with
\* control flow Recovable; an error of T is returned unchanged.
C21_LimitsBounds ==
    parser.tag \in {"LimitsTo", "Limits", "LimitsFrom"} =>
        IF ~ChildRun.ok
        THEN ~result.ok /\ result.err = ChildRun.err
        ELSE LET accepted == CASE parser.tag = "LimitsTo" -> ChildLen <= parser.n
                               [] parser.tag = "LimitsFrom" -> ChildLen >= parser.lo
                               [] OTHER -> parser.lo <= ChildLen /\ ChildLen < parser.hi
             IN  /\ result.ok <=> accepted
                 /\ result.ok => result.val.v = ChildRun.val
                 /\ ~result.ok => /\ result.err.kind = parser.tag
                                  /\ result.err.cf = "Recovable"

\* Limits<Ident, 1, 2> rejected an identifier of exactly HIGHER = 2 code units
C21_Witness ==
    /\ parser = LimitsT(Ident, 1, 2)
    /\ ChildRun.ok
    /\ ChildLen = 2
    /\ ~result.ok
    /\ result.err.kind = "Limits"

(***************************************************************************)
(* Delimiter (SpecDelimiter).                                              *)
(***************************************************************************)
\* the three parses of a Delimiter, each on the cursor the one before left
StartRun == Parse(parser.start, snapshot)

BodyRun == Parse(parser.body, StartRun.input)

EndRun == Parse(parser.end, BodyRun.input)

\* C22: Delimiter<Start, End, Body>::parse runs Start, then Body on the cursor
\* Start left, then End on the cursor Body left, and returns the first error
\* it meets unchanged; on success the value holds the three results, the
\* cursor is where End left it, and to_span is the union of the spans of the
\* start and the end token.
C22_DelimiterInOrder ==
    parser.tag = "Delimiter" =>
        IF ~StartRun.ok THEN ~result.ok /\ result.err = StartRun.err
        ELSE IF ~BodyRun.ok THEN ~result.ok /\ result.err = BodyRun.err
        ELSE IF ~EndRun.ok THEN ~result.ok /\ result.err = EndRun.err
        ELSE /\ result.ok
             /\ result.val.start = StartRun.val
             /\ result.val.body = BodyRun.val
             /\ result.val.end = EndRun.val
             /\ input = EndRun.input
             /\ result.log = StartRun.log \o BodyRun.log \o EndRun.log
             /\ to_span(result.val) = union(to_span(StartRun.val), to_span(EndRun.val))

\* "(123)": start [0,1), body "123" at offset 1, end [4,5), overall [0,5)
C22_Witness ==
    /\ parser = DelimiterT(CharP("("), CharP(")"), Digits)
    /\ snapshot = TokenStream(0, <<"(", "1", "2", "3", ")">>)
    /\ result.ok
    /\ to_span(result.val.start) = Range(0, 1)
    /\ result.val.body.fields[1] = Window(TokenStream(1, <<"1", "2", "3">>))
    /\ to_span(result.val.end) = Range(4, 5)
    /\ to_span(result.val) = Range(0, 5)

(***************************************************************************)
(* Cursor (SpecCursor).                                                    *)
(***************************************************************************)
\* cursor c covers the code units [s, e) of the source, e - s of them
Covers(c, s, e) == start(c) = s /\ end(c) = e /\ s <= e /\ e - s = len(c)

\* C23: on a cursor of bytes, split_to(n) and split_off(n) with
\* n <= len() keep start() <= end() and end() - start() = len(); after
\* split_to(n) the returned window covers [old_start, old_start + n) and self
\* covers [old_start + n, old_end); after split_off(n) self covers
\* [old_start, old_start + n) and the returned window [old_start + n,
\* old_end); the two concatenate to the value split.
C23_SplitInvariants ==
    parser.tag \in {"split_to", "split_off"} /\ snapshot.flavour = "bytes" =>
        LET s0 == start(snapshot)
            e0 == end(snapshot)
            n == parser.at
        IN  /\ result.ok
            /\ IF parser.tag = "split_to"
               THEN /\ Covers(result.val.inp, s0, s0 + n)
                    /\ Covers(input, s0 + n, e0)
                    /\ result.val.inp.value \o input.value = snapshot.value
               ELSE /\ Covers(input, s0, s0 + n)
                    /\ Covers(result.val.inp, s0 + n, e0)
                    /\ input.value \o result.val.inp.value = snapshot.value

(***************************************************************************)
(* Hand-written tokens (SpecTokens).                                       *)
(***************************************************************************)
\* C24: no parse of a hand-written token on a cursor of chars panics: every
\* index it hands to split_to is at most len() and on a code-point boundary,
\* also when the source holds multi-byte chars; a failure is an error value.
C24_NoPanicOnChars ==
    parser.tag \in {"unsyn::Ident", "LitDec"} /\ snapshot.flavour = "chars" =>
        ~Panicked(result)

(***************************************************************************)
(* Item-level map_err (SpecMapErr).                                        *)
(***************************************************************************)
\* error e is a result of the item-level F
ThroughItemF(e) == e.kind = ItemF.kind /\ e.name = ItemF.name

\* C25: every error returned by the parse of a derived struct or enum with an
\* item-level map_err = F has been passed through F, the errors of fields
\* with a map_err of their own, of fields promoted by crucial and of the
\* semantic function included.
C25_ItemMapErrWrapsAll ==
    parser.tag \in {"struct", "enum"} /\ parser.map_err = ItemF /\ ~result.ok =>
        ThroughItemF(result.err)

(***************************************************************************)
(* ItemConfig (SpecItemConfig).                                            *)
(***************************************************************************)
\* C26: whatever the order of the item-level options, ItemConfig::parse
\* accepts no list that sets keyword together with take_while, char or
\* semantic, nor take_while together with char.
C26_ExclusiveItemOptions ==
    parser.tag = "ItemConfig" /\ result.ok =>
        /\ "keyword" \in parser.set => parser.set \cap {"take_while", "char", "semantic"} = {}
        /\ ~("take_while" \in parser.set /\ "char" \in parser.set)

(***************************************************************************)
(* C27: a derived type whose first field is (a Box of) the same type and   *)
(* is marked left_recursion has a parse function that returns              *)
(* Err(LeftRecursion(Fatal, 0..0)) on the empty input.  The parse function *)
(* is generated only when the field's options are taken, so an option list *)
(* that starts with left_recursion, as the ones of the enum T and of the   *)
(* struct T1 do, must not end FieldConfig::parse with an error             *)
(* (SpecFieldConfig).                                                      *)
(***************************************************************************)
C27_LeftRecursionOptionTaken ==
    (/\ parser.tag = "FieldConfig"
     /\ Len(parser.options) >= 1
     /\ parser.options[1] = "left_recursion")
        => result.ok

(***************************************************************************)
(* LitUnicode (SpecUnicode).                                               *)
(***************************************************************************)
\* the number of hex digits of v from index i on
RECURSIVE HexDigits(_, _)
HexDigits(v, i) ==
    IF i <= Len(v) /\ Pred("is_ascii_hexdigit", v[i]) THEN 1 + HexDigits(v, i + 1) ELSE 0

\* the source the parse started from begins with "U+"
HasUnicodePrefix ==
    /\ len(snapshot) >= 2
    /\ snapshot.value[1] = "U"
    /\ snapshot.value[2] = "+"

\* the parse failed with Semantics(Unicode, span)
SemanticsUnicode(span) ==
    /\ ~result.ok
    /\ result.err.kind = "Semantics"
    /\ result.err.name = "Unicode"
    /\ result.err.span = span

\* C28: LitUnicode::parse succeeds iff the source starts with "U+" and exactly
\* four hex digits not followed by a fifth, and then returns the window of six
\* code units it consumed; fewer than four hex digits fail with
\* Semantics(Unicode, prefix start .. end of the digits), five or more with
\* Semantics(Unicode, prefix start .. end of the fifth digit).
C28_LitUnicodeExactlyFour ==
    parser.tag = "LitUnicode" =>
        LET o == start(snapshot)
            n == IF HasUnicodePrefix THEN HexDigits(snapshot.value, 3) ELSE 0
        IN  /\ result.ok <=> (HasUnicodePrefix /\ n = 4)
            /\ result.ok =>
                  /\ result.val.name = "LitUnicode"
                  /\ result.val.v.inp = TokenStream(o, SubSeq(snapshot.value, 1, 6))
                  /\ input = TokenStream(o + 6, SubSeq(snapshot.value, 7, len(snapshot)))
            /\ HasUnicodePrefix /\ n < 4 => SemanticsUnicode(Range(o, o + 2 + n))
            /\ HasUnicodePrefix /\ n >= 5 => SemanticsUnicode(Range(o, o + 7))

(***************************************************************************)
(* Round trip of Syntax::parse through Syntax::to_span.                    *)
(***************************************************************************)
\* the cursor built from (start of span sp, the part of the source that the
\* parse started from which sp covers)
Covered(sp) ==
    [snapshot EXCEPT !.offset = sp.start,
                     !.value = SubSeq(snapshot.value, sp.start - snapshot.offset + 1,
                                      sp.end - snapshot.offset)]

\* T::parse on the cursor Covered(v.to_span()) of the value v just parsed
Reparse == Parse(parser, Covered(to_span(result.val)))

\* C29: for every T: Syntax and every value v of a successful T::parse, the
\* parse of T on the cursor built from the start of v.to_span() and the part
\* of the source v.to_span() covers succeeds with a value equal to v and
\* leaves that cursor empty.  Stated for the values whose span is a Range.
C29_RoundTrip ==
    (parser.tag # "init" /\ result.ok /\ to_span(result.val).tag = "Range") =>
        /\ Reparse.ok
        /\ Reparse.val = result.val
        /\ len(Reparse.input) = 0

(***************************************************************************)
(* Totality of the repetition nodes (SpecTotal).                           *)
(***************************************************************************)
\* C30: Vec<T>::parse and Punctuated<T, P>::parse terminate on every finite
\* cursor: every pass of their loop that does not leave the loop strictly
\* shortens the cursor, also when T can succeed without consuming input.
C30_IterationShortens ==
    [][(parser.pc = "loop" /\ parser'.pc = "loop") => len(input') < len(input)]_vars

====
